---- MODULE Spec2Model ----
(***************************************************************************)
(* Task processing system (C++): TaskOrchestrator, Worker, Task and the    *)
(* calculation functions, as a state machine.                              *)
(*                                                                         *)
(* Every critical section of the code (a block under queue_mutex_ or       *)
(* storage_mutex_) is one atomic step; the steps between them interleave   *)
(* freely.  queue_mutex_ is held across steps only by a processing thread  *)
(* that has evaluated the wait predicate to false and has not blocked yet  *)
(* (pc "prewait").                                                         *)
(***************************************************************************)
EXTENDS Integers, Sequences, FiniteSets, TLC

\* ---------------------------------------------------------------- bounds
NumWorkers == 2          \* config_.num_workers
ThreadsPerWorker == 1    \* config_.threads_per_worker
NumCallers == 2          \* concurrent caller threads (HTTP handlers)
NumIds == 2              \* distinct task ids the callers use
MaxCreate == 2           \* tasks distributed in one behaviour of Spec
MaxComplete == 2         \* completeTask calls in one behaviour
MaxDistribute == 4       \* tasks distributed in one behaviour of SpecCreate
MaxSignals == 2          \* signals delivered in one behaviour of SpecSignal
MaxNegative == 3         \* a calculation called alone gets inputs from -MaxNegative
MaxFactorial == 20       \* greatest input of factorial that Task::isValid accepts
MaxFibonacci == 50       \* greatest input of fibonacci called alone
MaxPrime == 400          \* greatest input of prime_check called alone

Workers == 0 .. (NumWorkers - 1)
Threads == 1 .. ThreadsPerWorker
Callers == 1 .. NumCallers
IdNames == <<"t1", "t2", "t3", "t4">>
Ids == { IdNames[i] : i \in 1 .. NumIds }

\* ------------------------------------------------------------- task.h
PENDING == "PENDING"
PROCESSING == "PROCESSING"
COMPLETED == "COMPLETED"
FAILED == "FAILED"
TaskStatus == {PENDING, PROCESSING, COMPLETED, FAILED}

LOW == 1
MEDIUM == 2
HIGH == 3

\* The absent value: a map without the key, a thread or caller without a task.
NoTask == [id |-> "", title |-> "", priority |-> 0, type |-> "", input |-> 0,
           operation |-> "", status |-> "none", result |-> "", error_message |-> ""]

\* Task::Task(id, title, priority, data): status PENDING, result and error empty.
Task(id, title, priority, type, input, operation) ==
    [id |-> id, title |-> title, priority |-> priority, type |-> type,
     input |-> input, operation |-> operation,
     status |-> PENDING, result |-> "", error_message |-> ""]

\* A Task::isValid without the limits of the operations
Task_isValidNoLimit(t) ==
    IF t.id = "" \/ t.title = "" THEN FALSE
    ELSE IF t.type # "calculation" THEN FALSE
    ELSE IF t.operation # "factorial" /\ t.operation # "fibonacci"
            /\ t.operation # "prime_check" THEN FALSE
    ELSE IF t.input < 0 \/ t.input > 100000 THEN FALSE
    ELSE TRUE

\* Task::isValid
Task_isValid(t) ==
    IF t.id = "" \/ t.title = "" THEN FALSE
    ELSE IF t.type # "calculation" THEN FALSE
    ELSE IF t.operation # "factorial" /\ t.operation # "fibonacci"
            /\ t.operation # "prime_check" THEN FALSE
    ELSE IF t.input < 0 \/ t.input > 100000 THEN FALSE
    ELSE IF t.operation = "factorial" /\ t.input > 20 THEN FALSE
    ELSE IF t.operation = "fibonacci" /\ t.input > 1000 THEN FALSE
    ELSE IF t.operation = "prime_check" /\ t.input < 2 THEN FALSE
    ELSE TRUE

\* taskStatusToString
taskStatusToString(status) ==
    IF status = PENDING THEN "pending"
    ELSE IF status = PROCESSING THEN "processing"
    ELSE IF status = COMPLETED THEN "completed"
    ELSE IF status = FAILED THEN "failed"
    ELSE "unknown"

\* A stringToTaskStatus without the branch of "failed"
stringToTaskStatusNoFailed(status) ==
    IF status = "pending" THEN PENDING
    ELSE IF status = "processing" THEN PROCESSING
    ELSE IF status = "completed" THEN COMPLETED
    ELSE PENDING

\* stringToTaskStatus: any other string gives PENDING
stringToTaskStatus(status) ==
    IF status = "pending" THEN PENDING
    ELSE IF status = "processing" THEN PROCESSING
    ELSE IF status = "completed" THEN COMPLETED
    ELSE IF status = "failed" THEN FAILED
    ELSE PENDING

\* Task::from_json(j).  A JSON object is a record of its members with the set
\* j.keys of the optional members it contains; id, title and data are present
\* (without them from_json throws before a Task exists).
Task_from_json(j) ==
    LET priority == IF "priority" \in j.keys /\ j.priority >= 1 /\ j.priority <= 3
                    THEN j.priority ELSE MEDIUM
        task == Task(j.id, j.title, priority, j.type, j.input, j.operation)
    IN [task EXCEPT
          !.status = IF "status" \in j.keys THEN stringToTaskStatus(j.status) ELSE @,
          !.result = IF "result" \in j.keys THEN j.result ELSE @,
          !.error_message = IF "error" \in j.keys THEN j.error ELSE @]

\* ------------------------------------------------------ calculations.cpp
Digit == <<"0", "1", "2", "3", "4", "5", "6", "7", "8", "9">>

\* std::to_string of one decimal digit
DigitToString(d) == Digit[d + 1]

Ok(v) == [ok |-> TRUE, value |-> v]
Throw(msg) == [ok |-> FALSE, value |-> msg]

\* An inner loop of factorial that drops the carry left after the last digit
RECURSIVE MulDigitsNoCarry(_, _, _, _)
MulDigitsNoCarry(result, i, j, carry) ==
    IF j <= Len(result)
    THEN LET prod == result[j] * i + carry
         IN  MulDigitsNoCarry([result EXCEPT ![j] = prod % 10], i, j + 1, prod \div 10)
    ELSE result

\* One pass of the inner loops of factorial: result (least significant digit
\* first) times i, from position j with the carry so far.
RECURSIVE MulDigits(_, _, _, _)
MulDigits(result, i, j, carry) ==
    IF j <= Len(result)
    THEN LET prod == result[j] * i + carry
         IN  MulDigits([result EXCEPT ![j] = prod % 10], i, j + 1, prod \div 10)
    ELSE IF carry # 0
    THEN MulDigits(Append(result, carry % 10), i, j + 1, carry \div 10)
    ELSE result

RECURSIVE FactorialDigits(_, _, _)
FactorialDigits(result, i, n) ==
    IF i <= n THEN FactorialDigits(MulDigits(result, i, 1, 0), i + 1, n) ELSE result

\* The final loop of factorial: the digits from the last to the first.
RECURSIVE ReverseToString(_, _)
ReverseToString(result, i) ==
    IF i >= 1 THEN DigitToString(result[i]) \o ReverseToString(result, i - 1) ELSE ""

factorial(n) ==
    IF n < 0 THEN Throw("Factorial is not defined for negative numbers")
    ELSE IF n = 0 \/ n = 1 THEN Ok("1")
    ELSE LET result == FactorialDigits(<<1>>, 2, n)
         IN  Ok(ReverseToString(result, Len(result)))

\* An addStrings that stops at the last digit and drops the carry
RECURSIVE addStringsNoCarry(_, _, _, _, _)
addStringsNoCarry(num1, num2, i, j, acc) ==
    IF i >= 1 \/ j >= 1
    THEN LET digit1 == IF i >= 1 THEN num1[i] ELSE 0
             digit2 == IF j >= 1 THEN num2[j] ELSE 0
             sum == digit1 + digit2 + acc.carry
         IN  addStringsNoCarry(num1, num2, i - 1, j - 1,
                               [result |-> <<sum % 10>> \o acc.result,
                                carry |-> sum \div 10])
    ELSE acc.result

\* addStrings on decimal strings held as digit sequences, most significant
\* digit first; result is built by prepending, as in the code.
RECURSIVE addStrings(_, _, _, _, _)
addStrings(num1, num2, i, j, acc) ==
    LET carry == acc.carry IN
    IF i >= 1 \/ j >= 1 \/ carry # 0
    THEN LET digit1 == IF i >= 1 THEN num1[i] ELSE 0
             digit2 == IF j >= 1 THEN num2[j] ELSE 0
             sum == digit1 + digit2 + carry
         IN  addStrings(num1, num2, i - 1, j - 1,
                        [result |-> <<sum % 10>> \o acc.result, carry |-> sum \div 10])
    ELSE acc.result

\* The loop of fibonacci on the pair <<prev, curr>>: next = addStrings(prev,
\* curr); prev = curr; curr = next.
RECURSIVE FibonacciLoop(_, _, _)
FibonacciLoop(pair, i, n) ==
    IF i <= n
    THEN FibonacciLoop(<<pair[2], addStrings(pair[1], pair[2], Len(pair[1]), Len(pair[2]),
                                             [result |-> <<>>, carry |-> 0])>>,
                       i + 1, n)
    ELSE pair[2]

RECURSIVE DigitsToString(_, _)
DigitsToString(ds, i) ==
    IF i <= Len(ds) THEN DigitToString(ds[i]) \o DigitsToString(ds, i + 1) ELSE ""

fibonacci(n) ==
    IF n < 0 THEN Throw("Fibonacci is not defined for negative numbers")
    ELSE IF n = 0 THEN Ok("0")
    ELSE IF n = 1 THEN Ok("1")
    ELSE Ok(DigitsToString(FibonacciLoop(<<<<0>>, <<1>>>>, 2, n), 1))

\* static_cast<int>(std::sqrt(n)) for n >= 0
RECURSIVE IntSqrt(_, _)
IntSqrt(n, r) == IF (r + 1) * (r + 1) <= n THEN IntSqrt(n, r + 1) ELSE r

\* A divisor loop that stops before the limit
RECURSIVE OddDivisorBelow(_, _, _)
OddDivisorBelow(n, i, limit) ==
    IF i < limit
    THEN IF n % i = 0 THEN TRUE ELSE OddDivisorBelow(n, i + 2, limit)
    ELSE FALSE

RECURSIVE OddDivisor(_, _, _)
OddDivisor(n, i, limit) ==
    IF i <= limit
    THEN IF n % i = 0 THEN TRUE ELSE OddDivisor(n, i + 2, limit)
    ELSE FALSE

prime_check(n) ==
    IF n < 2 THEN Throw("Prime check requires number >= 2")
    ELSE IF n = 2 THEN Ok("true")
    ELSE IF n % 2 = 0 THEN Ok("false")
    ELSE IF OddDivisor(n, 3, IntSqrt(n, 0)) THEN Ok("false")
    ELSE Ok("true")

validate_calculation_input(operation, input) ==
    IF operation = "factorial" THEN input >= 0
    ELSE IF operation = "fibonacci" THEN input >= 0
    ELSE IF operation = "prime_check" THEN input >= 2
    ELSE FALSE

execute_calculation(operation, input) ==
    IF ~validate_calculation_input(operation, input)
    THEN Throw("Invalid operation or input")
    ELSE IF operation = "factorial" THEN factorial(input)
    ELSE IF operation = "fibonacci" THEN fibonacci(input)
    ELSE IF operation = "prime_check" THEN prime_check(input)
    ELSE Throw("Unknown operation")

\* A validateTaskInput whose own limit for factorial is lower than isValid's.
validateTaskInputStrict(t) ==
    IF ~Task_isValid(t) THEN FALSE
    ELSE IF t.operation # "factorial" /\ t.operation # "fibonacci"
            /\ t.operation # "prime_check" THEN FALSE
    ELSE IF t.operation = "factorial" /\ (t.input < 0 \/ t.input > 10) THEN FALSE
    ELSE IF t.operation = "fibonacci" /\ (t.input < 0 \/ t.input > 1000) THEN FALSE
    ELSE IF t.operation = "prime_check" /\ t.input < 2 THEN FALSE
    ELSE TRUE

\* ------------------------------------------------------- orchestrator.cpp
\* TaskOrchestrator::validateTaskInput
validateTaskInput(t) ==
    IF ~Task_isValid(t) THEN FALSE
    ELSE IF t.operation # "factorial" /\ t.operation # "fibonacci"
            /\ t.operation # "prime_check" THEN FALSE
    ELSE IF t.operation = "factorial" /\ (t.input < 0 \/ t.input > 20) THEN FALSE
    ELSE IF t.operation = "fibonacci" /\ (t.input < 0 \/ t.input > 1000) THEN FALSE
    ELSE IF t.operation = "prime_check" /\ t.input < 2 THEN FALSE
    ELSE TRUE


\* A selectWorker that uses the counter's value after the increment.
selectWorkerAfterIncrement(counter) == (counter + 1) % NumWorkers

\* A selectWorker that ignores the counter
selectWorkerFirst(counter) == 0

\* TaskOrchestrator::selectWorker: the index for the counter value read by
\* fetch_add(1); the counter itself is advanced by the calling action.
selectWorker(counter) == counter % NumWorkers

\* ------------------------------------------------------------------ state
VARIABLES
    running,         \* TaskOrchestrator::running_
    opc,             \* start(): "idle", or "starting" while it walks workers_
    oidx,            \* start(): index of the next worker to start
    current_worker,  \* TaskOrchestrator::current_worker_
    system_stats,    \* TaskOrchestrator::system_stats_
    main,            \* main.cpp: the position of main, shutdown_requested, and
                     \* the call of start() a signal handler has interrupted
    wrunning,        \* Worker::running_, per worker
    task_queue,      \* Worker::task_queue_, per worker
    task_storage,    \* Worker::task_storage_, per worker: id -> Task or NoTask
    stats,           \* Worker::stats_, per worker
    tpc,             \* processing threads: position in processTaskLoop ("loop":
                     \* at the loop condition, "blocked": inside queue_cv_.wait,
                     \* "woken": notified inside the wait)
    ttask,           \* processing threads: the local Task of processTaskLoop
    cpc,             \* caller threads: position in createTask / completeTask
    ctask,           \* caller threads: the Task argument of createTask
    cid,             \* caller threads: the id argument of completeTask
    cidx,            \* caller threads: worker_index / position in workers_
    csnap,           \* caller threads: the pointer getTask returned to the caller
    cafter,          \* caller threads: completeTask was called after createTask
                     \* had returned and processTask had finished
    returned,        \* what the step just taken returned to its caller, if anything
    assigned,        \* history: the worker index given to each distributed task, in order
    created,         \* history: tasks distributed per id
    succ,            \* history: successful completeTask calls per id
    finished,        \* history: ids whose processTask has returned
    doneAfter,       \* history: ids with a returned completeTask that was called
                     \* after createTask had returned and processTask had finished
    ncomplete        \* history: completeTask calls so far

orchVars == <<running, opc, oidx, current_worker, system_stats, main>>
workerVars == <<wrunning, task_queue, task_storage, stats>>
threadVars == <<tpc, ttask>>
callerVars == <<cpc, ctask, cid, cidx, csnap, cafter>>
histVars == <<assigned, created, succ, finished, doneAfter, ncomplete>>
vars == <<orchVars, workerVars, threadVars, callerVars, returned, histVars>>

\* WorkerStats(): all counters 0
WorkerStats == [tasks_processed |-> 0, tasks_completed |-> 0, tasks_failed |-> 0]

\* SystemStats() as the TaskOrchestrator constructor leaves it: totals 0,
\* total_workers = config_.num_workers
SystemStats == [total_tasks_processed |-> 0, total_tasks_completed |-> 0,
                total_tasks_failed |-> 0, total_workers |-> NumWorkers]

\* What a call gives back: the value returned or the exception thrown, with
\* the call's argument.  NoRet: the step returned from no call.
NoRet == [op |-> "none", caller |-> 0, worker |-> 0, task |-> NoTask, id |-> "",
          input |-> 0, arg |-> "", val |-> "", error |-> "", final |-> FALSE,
          stats |-> SystemStats]

\* std::unique_ptr<Task>: nullptr, or the address of a Task.  A Task lives
\* either in the caller's memory ("heap": the object is the field task) or
\* in the task_storage_ of a worker ("map": the record of id there).
NullPtr == [addr |-> "null", worker |-> 0, id |-> "", task |-> NoTask]

\* The payloads the callers submit: for every id one task built by the Task
\* constructor that passes validation, and some that do not pass.
ValidPayload(id) ==
    IF id = "t1" THEN Task(id, "Calculate factorial", MEDIUM, "calculation", 5, "factorial")
    ELSE IF id = "t2" THEN Task(id, "Check prime", HIGH, "calculation", 7, "prime_check")
    ELSE IF id = "t3" THEN Task(id, "Calculate fibonacci", LOW, "calculation", 10, "fibonacci")
    ELSE Task(id, "Calculate factorial", HIGH, "calculation", 20, "factorial")

InvalidPayloads ==
    { Task("t1", "Too large", MEDIUM, "calculation", 21, "factorial"),
      Task("t2", "Not a prime input", LOW, "calculation", 1, "prime_check"),
      Task("t1", "Unknown operation", HIGH, "calculation", 4, "sqrt") }

ValidPayloads == { ValidPayload(id) : id \in Ids }

\* Creation requests as POST /task/create receives them: JSON objects that
\* carry status, result or error members besides the task's own.
Json(id, operation, input, keys, status, result, error) ==
    [id |-> id, title |-> "Posted task", priority |-> HIGH, type |-> "calculation",
     input |-> input, operation |-> operation, keys |-> keys,
     status |-> status, result |-> result, error |-> error]

JsonPayloads ==
    { Json("t1", "factorial", 5, {"priority"}, "", "", ""),
      Json("t1", "factorial", 5, {"status", "error"}, "failed", "", "boom"),
      Json("t2", "prime_check", 7, {"status", "result"}, "completed", "done", ""),
      Json("t2", "prime_check", 7, {"status", "error"}, "processing", "", "boom") }

Payloads == ValidPayloads \cup InvalidPayloads

\* Tasks whose calculation raises an error, as a client of class Worker can
\* hand them to Worker::addTask, which validates nothing.
FailingTasks ==
    { Task("t1", "Not a prime input", LOW, "calculation", 1, "prime_check"),
      Task("t2", "Unknown operation", HIGH, "calculation", 4, "sqrt") }

WorkerTasks == ValidPayloads \cup FailingTasks

\* The saved position of main while a signal handler runs; NoFrame: no
\* handler is running.
NoFrame == [pc |-> "none", idx |-> 0]

\* main before global_orchestrator->start(): no signal has arrived
MainInit == [pc |-> "start", shutdown_requested |-> FALSE, saved |-> NoFrame,
             signals |-> 0]

\* TaskOrchestrator::TaskOrchestrator and Worker::Worker
Init ==
    /\ running = FALSE
    /\ opc = "idle"
    /\ oidx = 0
    /\ current_worker = 0
    /\ system_stats = SystemStats
    /\ main = MainInit
    /\ wrunning = [w \in Workers |-> FALSE]
    /\ task_queue = [w \in Workers |-> <<>>]
    /\ task_storage = [w \in Workers |-> [i \in Ids |-> NoTask]]
    /\ stats = [w \in Workers |-> WorkerStats]
    /\ tpc = [w \in Workers |-> [t \in Threads |-> "off"]]
    /\ ttask = [w \in Workers |-> [t \in Threads |-> NoTask]]
    /\ cpc = [c \in Callers |-> "idle"]
    /\ ctask = [c \in Callers |-> NoTask]
    /\ cid = [c \in Callers |-> ""]
    /\ cidx = [c \in Callers |-> 0]
    /\ csnap = [c \in Callers |-> NullPtr]
    /\ cafter = [c \in Callers |-> FALSE]
    /\ returned = NoRet
    /\ assigned = <<>>
    /\ created = [i \in Ids |-> 0]
    /\ succ = [i \in Ids |-> 0]
    /\ finished = {}
    /\ doneAfter = {}
    /\ ncomplete = 0

\* ------------------------------------------------------------ worker.cpp
\* queue_mutex_ of worker w is free: no processing thread sits between the
\* predicate of queue_cv_.wait and blocking in it.
QueueMutexFree(w) == \A t \in Threads : tpc[w][t] # "prewait"

Blocked(w) == { t \in Threads : tpc[w][t] = "blocked" }

\* A completeTask that does not look at the result: any PROCESSING record
\* is completed.
Worker_completeTaskNoResultCheck(storage, st, task_id) ==
    LET task == storage[task_id] IN
    IF task # NoTask /\ task.status = PROCESSING
    THEN [ret |-> TRUE,
          storage |-> [storage EXCEPT ![task_id].status = COMPLETED],
          stats |-> [st EXCEPT !.tasks_completed = @ + 1]]
    ELSE [ret |-> FALSE, storage |-> storage, stats |-> st]

\* A completeTask that does not look at the status: any record with a result
\* is completed.
Worker_completeTaskNoStatusCheck(storage, st, task_id) ==
    LET task == storage[task_id] IN
    IF task # NoTask /\ task.result # ""
    THEN [ret |-> TRUE,
          storage |-> [storage EXCEPT ![task_id].status = COMPLETED],
          stats |-> [st EXCEPT !.tasks_completed = @ + 1]]
    ELSE [ret |-> FALSE, storage |-> storage, stats |-> st]

\* Worker::completeTask on one worker's storage and statistics: the value
\* returned, and the storage and statistics it leaves.
Worker_completeTask(storage, st, task_id) ==
    LET task == storage[task_id] IN
    IF task # NoTask
    THEN IF task.status = PROCESSING /\ task.result # ""
         THEN [ret |-> TRUE,
               storage |-> [storage EXCEPT ![task_id].status = COMPLETED],
               stats |-> [st EXCEPT !.tasks_completed = @ + 1]]
         ELSE IF task.status = PROCESSING /\ task.result = ""
                 /\ task.error_message # ""
         THEN [ret |-> FALSE,
               storage |-> [storage EXCEPT ![task_id].status = FAILED],
               stats |-> st]
         ELSE [ret |-> FALSE, storage |-> storage, stats |-> st]
    ELSE [ret |-> FALSE, storage |-> storage, stats |-> st]

\* Worker::getTask: a copy of the stored task, or NoTask (nullptr)
Worker_getTask(storage, task_id) == storage[task_id]

\* Worker::start, called by TaskOrchestrator::start for workers_[oidx]; after
\* the last worker start() launches the request-serving thread and returns.
StartWorker ==
    /\ opc = "starting"
    /\ LET w == oidx IN
       IF wrunning[w]
       THEN UNCHANGED <<wrunning, tpc>>
       ELSE /\ wrunning' = [wrunning EXCEPT ![w] = TRUE]
            /\ tpc' = [tpc EXCEPT ![w] = [t \in Threads |-> "loop"]]
    /\ IF oidx + 1 < NumWorkers
       THEN /\ oidx' = oidx + 1
            /\ opc' = opc
       ELSE /\ oidx' = 0
            /\ opc' = "idle"
    /\ returned' = NoRet
    /\ UNCHANGED <<main, running, current_worker, system_stats, task_queue, task_storage,
                   stats, ttask,
                   callerVars, histVars>>

\* A start() without the running_ check: it goes through the workers again.
StartUnchecked ==
    /\ opc = "idle"
    /\ running' = TRUE
    /\ opc' = "starting"
    /\ oidx' = 0
    /\ returned' = NoRet
    /\ UNCHANGED <<current_worker, system_stats, workerVars, threadVars, callerVars,
                   histVars>>

\* TaskOrchestrator::start up to the loop over workers_; on a running
\* orchestrator the call returns at once.
Start ==
    /\ opc = "idle"
    /\ IF running
       THEN /\ returned' = [NoRet EXCEPT !.op = "start", !.val = "running",
                                         !.final = TRUE]
            /\ UNCHANGED <<running, opc, oidx, current_worker, system_stats,
                           workerVars, threadVars, callerVars, histVars>>
       ELSE /\ running' = TRUE
            /\ opc' = "starting"
            /\ oidx' = 0
            /\ returned' = NoRet
            /\ UNCHANGED <<current_worker, system_stats, workerVars, threadVars,
                           callerVars, histVars>>

\* TaskOrchestrator::stop up to the loop over workers_; on an orchestrator
\* that is not running the call returns at once.
Stop ==
    /\ opc = "idle"
    /\ IF ~running
       THEN /\ returned' = [NoRet EXCEPT !.op = "stop", !.val = "not running",
                                         !.final = TRUE]
            /\ UNCHANGED <<running, opc, oidx, current_worker, system_stats,
                           workerVars, threadVars, callerVars, histVars>>
       ELSE /\ running' = FALSE
            /\ opc' = "stopFlag"
            /\ oidx' = 0
            /\ returned' = NoRet
            /\ UNCHANGED <<current_worker, system_stats, workerVars, threadVars,
                           callerVars, histVars>>

\* TaskOrchestrator::stop after worker oidx: the next worker, or the
\* orchestrator's own server.
AfterStopWorker ==
    IF oidx + 1 < NumWorkers
    THEN /\ oidx' = oidx + 1
         /\ opc' = "stopFlag"
    ELSE /\ oidx' = 0
         /\ opc' = "stopServer"

\* Worker::stop, called by TaskOrchestrator::stop for workers_[oidx]: return
\* if the worker is not running, else running_ = false.
StopWorkerFlag ==
    /\ opc = "stopFlag"
    /\ LET w == oidx IN
       IF ~wrunning[w]
       THEN /\ AfterStopWorker
            /\ returned' = [NoRet EXCEPT !.op = "Worker::stop", !.worker = w,
                                         !.val = "not running", !.final = TRUE]
            /\ UNCHANGED wrunning
       ELSE /\ wrunning' = [wrunning EXCEPT ![w] = FALSE]
            /\ opc' = "stopNotify"
            /\ oidx' = oidx
            /\ returned' = NoRet
    /\ UNCHANGED <<main, running, current_worker, system_stats, task_queue, task_storage,
                   stats, threadVars, callerVars, histVars>>

\* Worker::stop, queue_cv_.notify_all(): every thread blocked in the wait
\* goes back to take queue_mutex_.  The call does not hold queue_mutex_.
StopWorkerNotify ==
    /\ opc = "stopNotify"
    /\ tpc' = [tpc EXCEPT ![oidx] =
                  [t \in Threads |-> IF t \in Blocked(oidx) THEN "woken" ELSE @[t]]]
    /\ opc' = "stopJoin"
    /\ returned' = NoRet
    /\ UNCHANGED <<main, running, oidx, current_worker, system_stats, workerVars, ttask,
                   callerVars, histVars>>

\* A Worker::stop that does not join: it returns whatever the threads do.
StopWorkerNoJoin ==
    /\ opc = "stopJoin"
    /\ AfterStopWorker
    /\ returned' = [NoRet EXCEPT !.op = "Worker::stop", !.worker = oidx,
                                 !.val = "joined", !.final = TRUE]
    /\ UNCHANGED <<main, running, current_worker, system_stats, workerVars, threadVars,
                   callerVars, histVars>>

\* Worker::stop, the joins: every processing thread has left
\* processTaskLoop; worker_threads_.clear() and return.
StopWorkerJoin ==
    /\ opc = "stopJoin"
    /\ \A t \in Threads : tpc[oidx][t] = "off"
    /\ AfterStopWorker
    /\ returned' = [NoRet EXCEPT !.op = "Worker::stop", !.worker = oidx,
                                 !.val = "joined", !.final = TRUE]
    /\ UNCHANGED <<main, running, current_worker, system_stats, workerVars, threadVars,
                   callerVars, histVars>>

\* TaskOrchestrator::stop, the end: server_->stop() and the join of the
\* request-serving thread, which returns when no request is being served.
\* The call returns to its caller: to the call of start() that the signal
\* handler interrupted, if stop() was called from the handler.
StopServer ==
    /\ opc = "stopServer"
    /\ \A c \in Callers : cpc[c] = "idle"
    /\ IF main.saved = NoFrame
       THEN /\ opc' = "idle"
            /\ UNCHANGED <<oidx, main>>
       ELSE /\ opc' = main.saved.pc
            /\ oidx' = main.saved.idx
            /\ main' = [main EXCEPT !.saved = NoFrame]
    /\ returned' = [NoRet EXCEPT !.op = "stop", !.val = "stopped", !.final = TRUE]
    /\ UNCHANGED <<running, current_worker, system_stats, workerVars,
                   threadVars, callerVars, histVars>>

\* The position TaskComparator would put first: the highest priority, the
\* earliest of them.
TopIndex(q) ==
    CHOOSE i \in 1..Len(q) :
        /\ \A j \in 1..Len(q) : q[j].priority <= q[i].priority
        /\ \A j \in 1..(i - 1) : q[j].priority < q[i].priority

\* A processTaskLoop over a priority queue: it dequeues the task of highest
\* priority instead of the front.
ThreadLoopByPriority(w, t) ==
    /\ tpc[w][t] \in {"loop", "woken"}
    /\ QueueMutexFree(w)
    /\ IF ~wrunning[w]
       THEN /\ tpc' = [tpc EXCEPT ![w][t] = "off"]
            /\ UNCHANGED <<task_queue, ttask>>
       ELSE IF task_queue[w] = <<>>
       THEN /\ tpc' = [tpc EXCEPT ![w][t] = "prewait"]
            /\ UNCHANGED <<task_queue, ttask>>
       ELSE LET q == task_queue[w]
                k == TopIndex(q)
            IN /\ ttask' = [ttask EXCEPT ![w][t] = q[k]]
               /\ task_queue' = [task_queue EXCEPT ![w] =
                                    SubSeq(q, 1, k - 1) \o SubSeq(q, k + 1, Len(q))]
               /\ tpc' = [tpc EXCEPT ![w][t] = "proc1"]
    /\ returned' = NoRet
    /\ UNCHANGED <<orchVars, wrunning, task_storage, stats, callerVars, histVars>>

\* A processTaskLoop that looks at running_ only when the queue is empty: it
\* leaves on a stop request after the queue has been emptied.
ThreadLoopDrain(w, t) ==
    /\ tpc[w][t] \in {"loop", "woken"}
    /\ QueueMutexFree(w)
    /\ IF task_queue[w] # <<>>
       THEN /\ ttask' = [ttask EXCEPT ![w][t] = Head(task_queue[w])]
            /\ task_queue' = [task_queue EXCEPT ![w] = Tail(@)]
            /\ tpc' = [tpc EXCEPT ![w][t] = "proc1"]
       ELSE IF ~wrunning[w]
       THEN /\ tpc' = [tpc EXCEPT ![w][t] = "off"]
            /\ UNCHANGED <<task_queue, ttask>>
       ELSE /\ tpc' = [tpc EXCEPT ![w][t] = "prewait"]
            /\ UNCHANGED <<task_queue, ttask>>
    /\ returned' = NoRet
    /\ UNCHANGED <<orchVars, wrunning, task_storage, stats, callerVars, histVars>>

\* Worker::processTaskLoop from the loop condition to the pop: under
\* queue_mutex_, the wait predicate, the running_ check and the dequeue.
ThreadLoop(w, t) ==
    /\ tpc[w][t] \in {"loop", "woken"}
    /\ QueueMutexFree(w)
    /\ IF ~wrunning[w]
       THEN /\ tpc' = [tpc EXCEPT ![w][t] = "off"]
            /\ UNCHANGED <<task_queue, ttask>>
       ELSE IF task_queue[w] = <<>>
       THEN /\ tpc' = [tpc EXCEPT ![w][t] = "prewait"]
            /\ UNCHANGED <<task_queue, ttask>>
       ELSE /\ ttask' = [ttask EXCEPT ![w][t] = Head(task_queue[w])]
            /\ task_queue' = [task_queue EXCEPT ![w] = Tail(@)]
            /\ tpc' = [tpc EXCEPT ![w][t] = "proc1"]
    /\ returned' = NoRet
    /\ UNCHANGED <<orchVars, wrunning, task_storage, stats, callerVars, histVars>>

\* queue_cv_.wait: the predicate was false; release queue_mutex_ and block.
ThreadWait(w, t) ==
    /\ tpc[w][t] = "prewait"
    /\ tpc' = [tpc EXCEPT ![w][t] = "blocked"]
    /\ returned' = NoRet
    /\ UNCHANGED <<orchVars, workerVars, ttask, callerVars, histVars>>

\* Worker::processTask, first part: PROCESSING, stored under storage_mutex_.
ProcessStart(w, t) ==
    /\ tpc[w][t] = "proc1"
    /\ LET task == [ttask[w][t] EXCEPT !.status = PROCESSING] IN
       /\ ttask' = [ttask EXCEPT ![w][t] = task]
       /\ task_storage' = [task_storage EXCEPT ![w][task.id] = task]
    /\ tpc' = [tpc EXCEPT ![w][t] = "proc2"]
    /\ returned' = NoRet
    /\ UNCHANGED <<orchVars, wrunning, task_queue, stats, callerVars, histVars>>

\* A processTask without the catch: an error of the calculation leaves the
\* record as it is and ends the thread.
ProcessCalcNoCatch(w, t) ==
    /\ tpc[w][t] = "proc2"
    /\ LET r == execute_calculation(ttask[w][t].operation, ttask[w][t].input)
       IN IF r.ok
          THEN LET task == [ttask[w][t] EXCEPT !.result = r.value]
               IN /\ ttask' = [ttask EXCEPT ![w][t] = task]
                  /\ task_storage' = [task_storage EXCEPT ![w][task.id] = task]
                  /\ tpc' = [tpc EXCEPT ![w][t] = "count"]
          ELSE /\ tpc' = [tpc EXCEPT ![w][t] = "off"]
               /\ UNCHANGED <<ttask, task_storage>>
    /\ returned' = NoRet
    /\ UNCHANGED <<orchVars, wrunning, task_queue, stats, callerVars, histVars>>

\* A processTask whose catch block records the error and leaves the status
\* PROCESSING, for completeTask to find.
ProcessCalcLazy(w, t) ==
    /\ tpc[w][t] = "proc2"
    /\ LET r == execute_calculation(ttask[w][t].operation, ttask[w][t].input)
           task == IF r.ok
                   THEN [ttask[w][t] EXCEPT !.result = r.value]
                   ELSE [ttask[w][t] EXCEPT !.error_message = r.value]
       IN /\ ttask' = [ttask EXCEPT ![w][t] = task]
          /\ task_storage' = [task_storage EXCEPT ![w][task.id] = task]
          /\ tpc' = [tpc EXCEPT ![w][t] = IF r.ok THEN "count" ELSE "countFailed"]
    /\ returned' = NoRet
    /\ UNCHANGED <<orchVars, wrunning, task_queue, stats, callerVars, histVars>>

\* Worker::processTask, second part: the calculation, then the result stored
\* with the status kept, or (catch) the error stored with FAILED.
ProcessCalc(w, t) ==
    /\ tpc[w][t] = "proc2"
    /\ LET r == execute_calculation(ttask[w][t].operation, ttask[w][t].input)
           task == IF r.ok
                   THEN [ttask[w][t] EXCEPT !.result = r.value]
                   ELSE [ttask[w][t] EXCEPT !.error_message = r.value,
                                            !.status = FAILED]
       IN /\ ttask' = [ttask EXCEPT ![w][t] = task]
          /\ task_storage' = [task_storage EXCEPT ![w][task.id] = task]
          /\ tpc' = [tpc EXCEPT ![w][t] = IF r.ok THEN "count" ELSE "countFailed"]
    /\ returned' = NoRet
    /\ UNCHANGED <<orchVars, wrunning, task_queue, stats, callerVars, histVars>>

\* catch branch: stats_.tasks_failed++
CountFailed(w, t) ==
    /\ tpc[w][t] = "countFailed"
    /\ stats' = [stats EXCEPT ![w].tasks_failed = @ + 1]
    /\ tpc' = [tpc EXCEPT ![w][t] = "count"]
    /\ returned' = NoRet
    /\ UNCHANGED <<orchVars, wrunning, task_queue, task_storage, ttask,
                   callerVars, histVars>>

\* stats_.tasks_processed++, the end of processTask; back to the loop.
CountProcessed(w, t) ==
    /\ tpc[w][t] = "count"
    /\ stats' = [stats EXCEPT ![w].tasks_processed = @ + 1]
    /\ tpc' = [tpc EXCEPT ![w][t] = "loop"]
    /\ finished' = finished \cup {ttask[w][t].id}
    /\ ttask' = [ttask EXCEPT ![w][t] = NoTask]
    /\ returned' = NoRet
    /\ UNCHANGED <<orchVars, wrunning, task_queue, task_storage, callerVars,
                   assigned, created, succ, doneAfter, ncomplete>>

\* --------------------------------------------- orchestrator.cpp: callers
\* The request-serving thread is launched by start() after every worker is
\* started (orchestrator.cpp:76-81) and ended by stop() after every worker is
\* stopped (orchestrator.cpp:104-111): requests are served in between.
Serving ==
    \/ running /\ opc = "idle"
    \/ opc \in {"stopFlag", "stopNotify", "stopJoin", "stopServer"}

\* TaskOrchestrator::createTask, the validation failing: throws
\* std::invalid_argument before anything is distributed.
RejectTask(c, task) ==
    /\ returned' = [NoRet EXCEPT !.op = "createTask", !.caller = c, !.task = task,
                                 !.error = "Invalid task input", !.final = TRUE]
    /\ UNCHANGED <<callerVars, current_worker, assigned, created>>

\* A distributeTask whose selectWorker reads current_worker_ without
\* advancing it.
DistributeTaskNoIncrement(c, task) ==
    /\ cidx' = [cidx EXCEPT ![c] = selectWorker(current_worker)]
    /\ current_worker' = current_worker
    /\ assigned' = Append(assigned, selectWorker(current_worker))
    /\ created' = [created EXCEPT ![task.id] = @ + 1]
    /\ cpc' = [cpc EXCEPT ![c] = "push"]
    /\ ctask' = [ctask EXCEPT ![c] = task]
    /\ returned' = NoRet
    /\ UNCHANGED <<cid, csnap, cafter>>

\* TaskOrchestrator::distributeTask up to the call of addTask: selectWorker
\* reads current_worker_ and advances it in one fetch_add.
DistributeTask(c, task) ==
    /\ cidx' = [cidx EXCEPT ![c] = selectWorker(current_worker)]
    /\ current_worker' = current_worker + 1
    /\ assigned' = Append(assigned, selectWorker(current_worker))
    /\ created' = [created EXCEPT ![task.id] = @ + 1]
    /\ cpc' = [cpc EXCEPT ![c] = "push"]
    /\ ctask' = [ctask EXCEPT ![c] = task]
    /\ returned' = NoRet
    /\ UNCHANGED <<cid, csnap, cafter>>

\* A createTask without the validation: every task is distributed.
CreateTaskUnchecked(c, task) ==
    /\ Serving
    /\ cpc[c] = "idle"
    /\ DistributeTask(c, task)
    /\ UNCHANGED <<main, running, opc, oidx, system_stats, workerVars, threadVars,
                   succ, finished, doneAfter, ncomplete>>

\* TaskOrchestrator::createTask(task), called by caller c
CreateTask(c, task) ==
    /\ Serving
    /\ cpc[c] = "idle"
    /\ IF ~validateTaskInput(task)
       THEN RejectTask(c, task)
       ELSE DistributeTask(c, task)
    /\ UNCHANGED <<main, running, opc, oidx, system_stats, workerVars, threadVars,
                   succ, finished, doneAfter, ncomplete>>

\* Worker::addTask(task) of worker w called by a client of the class
\* itself, not through createTask: the call begins.
Worker_addTask(c, w, task) ==
    /\ Serving
    /\ cpc[c] = "idle"
    /\ cpc' = [cpc EXCEPT ![c] = "push"]
    /\ ctask' = [ctask EXCEPT ![c] = task]
    /\ cidx' = [cidx EXCEPT ![c] = w]
    /\ created' = [created EXCEPT ![task.id] = @ + 1]
    /\ returned' = NoRet
    /\ UNCHANGED <<orchVars, workerVars, threadVars, cid, csnap, cafter,
                   assigned, succ, finished, doneAfter, ncomplete>>

\* Worker::addTask, first block: push under queue_mutex_
AddTaskPush(c) ==
    /\ cpc[c] = "push"
    /\ QueueMutexFree(cidx[c])
    /\ task_queue' = [task_queue EXCEPT ![cidx[c]] = Append(@, ctask[c])]
    /\ cpc' = [cpc EXCEPT ![c] = "store"]
    /\ returned' = NoRet
    /\ UNCHANGED <<orchVars, wrunning, task_storage, stats, threadVars,
                   ctask, cid, cidx, csnap, cafter, histVars>>

\* An addTask whose record goes to the first worker, wherever the task was queued.
AddTaskStoreFirstWorker(c) ==
    /\ cpc[c] = "store"
    /\ task_storage' = [task_storage EXCEPT ![0][ctask[c].id] = ctask[c]]
    /\ cpc' = [cpc EXCEPT ![c] = "notify"]
    /\ returned' = NoRet
    /\ UNCHANGED <<orchVars, wrunning, task_queue, stats, threadVars,
                   ctask, cid, cidx, csnap, cafter, histVars>>

\* Worker::addTask, second block: task_storage_[id] = task under storage_mutex_
AddTaskStore(c) ==
    /\ cpc[c] = "store"
    /\ task_storage' = [task_storage EXCEPT ![cidx[c]][ctask[c].id] = ctask[c]]
    /\ cpc' = [cpc EXCEPT ![c] = "notify"]
    /\ returned' = NoRet
    /\ UNCHANGED <<orchVars, wrunning, task_queue, stats, threadVars,
                   ctask, cid, cidx, csnap, cafter, histVars>>

\* An addTask that returns without notify_one.
AddTaskNoNotify(c) ==
    /\ cpc[c] = "notify"
    /\ tpc' = tpc
    /\ cpc' = [cpc EXCEPT ![c] = "idle"]
    /\ ctask' = [ctask EXCEPT ![c] = NoTask]
    /\ cidx' = [cidx EXCEPT ![c] = 0]
    /\ returned' = [NoRet EXCEPT !.op = "createTask", !.caller = c,
                                 !.worker = cidx[c], !.task = ctask[c],
                                 !.val = ctask[c].id, !.final = TRUE]
    /\ UNCHANGED <<orchVars, workerVars, ttask, cid, csnap, cafter, histVars>>

\* Worker::addTask, queue_cv_.notify_one(): one blocked thread, if there is
\* one, goes back to take queue_mutex_; then createTask returns the id.
AddTaskNotify(c) ==
    /\ cpc[c] = "notify"
    /\ LET w == cidx[c] IN
       IF Blocked(w) = {}
       THEN tpc' = tpc
       ELSE \E t \in Blocked(w) : tpc' = [tpc EXCEPT ![w][t] = "woken"]
    /\ cpc' = [cpc EXCEPT ![c] = "idle"]
    /\ ctask' = [ctask EXCEPT ![c] = NoTask]
    /\ cidx' = [cidx EXCEPT ![c] = 0]
    /\ returned' = [NoRet EXCEPT !.op = "createTask", !.caller = c,
                                 !.worker = cidx[c], !.task = ctask[c],
                                 !.val = ctask[c].id, !.final = TRUE]
    /\ UNCHANGED <<orchVars, workerVars, ttask, cid, csnap, cafter, histVars>>

\* Some caller is inside createTask for task_id: addTask has not returned.
InCreateTask(task_id) ==
    \E c \in Callers : cpc[c] \in {"push", "store", "notify"} /\ ctask[c].id = task_id

\* A completeTask that does not return on the first success: it asks every
\* worker and returns true if one of them reported success.
CompleteRoundAll(c, w, task_id, after) ==
    LET r == Worker_completeTask(task_storage[w], stats[w], task_id)
        last == w + 1 = NumWorkers
        any == r.ret \/ succ[task_id] > 0
    IN /\ task_storage' = [task_storage EXCEPT ![w] = r.storage]
       /\ stats' = [stats EXCEPT ![w] = r.stats]
       /\ succ' = IF r.ret THEN [succ EXCEPT ![task_id] = @ + 1] ELSE succ
       /\ returned' = [NoRet EXCEPT !.op = "completeTask", !.caller = c,
                                    !.worker = w, !.id = task_id,
                                    !.val = IF any THEN "true" ELSE "false",
                                    !.final = last]
       /\ cpc' = [cpc EXCEPT ![c] = IF last THEN "idle" ELSE "complete"]
       /\ cidx' = [cidx EXCEPT ![c] = IF last THEN 0 ELSE w + 1]
       /\ cid' = [cid EXCEPT ![c] = IF last THEN "" ELSE task_id]
       /\ cafter' = [cafter EXCEPT ![c] = IF last THEN FALSE ELSE after]
       /\ doneAfter' = IF last /\ after THEN doneAfter \cup {task_id} ELSE doneAfter

\* One round of the loop of TaskOrchestrator::completeTask for caller c, at
\* workers_[w]: Worker::completeTask; true ends the call, false goes to the
\* next worker, and after the last worker the call returns false.
CompleteRound(c, w, task_id, after) ==
    LET r == Worker_completeTask(task_storage[w], stats[w], task_id)
        last == r.ret \/ w + 1 = NumWorkers
    IN /\ task_storage' = [task_storage EXCEPT ![w] = r.storage]
       /\ stats' = [stats EXCEPT ![w] = r.stats]
       /\ succ' = IF r.ret THEN [succ EXCEPT ![task_id] = @ + 1] ELSE succ
       /\ returned' = [NoRet EXCEPT !.op = "completeTask", !.caller = c,
                                    !.worker = w, !.id = task_id,
                                    !.val = IF r.ret THEN "true" ELSE "false",
                                    !.final = last]
       /\ IF last
          THEN /\ cpc' = [cpc EXCEPT ![c] = "idle"]
               /\ cidx' = [cidx EXCEPT ![c] = 0]
               /\ cid' = [cid EXCEPT ![c] = ""]
               /\ cafter' = [cafter EXCEPT ![c] = FALSE]
               /\ doneAfter' = IF after THEN doneAfter \cup {task_id}
                               ELSE doneAfter
          ELSE /\ cpc' = [cpc EXCEPT ![c] = "complete"]
               /\ cidx' = [cidx EXCEPT ![c] = w + 1]
               /\ cid' = [cid EXCEPT ![c] = task_id]
               /\ cafter' = [cafter EXCEPT ![c] = after]
               /\ UNCHANGED doneAfter

\* TaskOrchestrator::completeTask(task_id), called by caller c: the call and
\* its first round, at workers_[0].
CompleteTask(c, task_id) ==
    /\ Serving
    /\ cpc[c] = "idle"
    /\ ncomplete < MaxComplete
    /\ ncomplete' = ncomplete + 1
    /\ CompleteRound(c, 0, task_id,
                     task_id \in finished /\ ~InCreateTask(task_id))
    /\ UNCHANGED <<orchVars, wrunning, task_queue, threadVars, ctask, csnap,
                   assigned, created, finished>>

\* TaskOrchestrator::completeTask, the later rounds of its loop
CompleteStep(c) ==
    /\ cpc[c] = "complete"
    /\ CompleteRound(c, cidx[c], cid[c], cafter[c])
    /\ UNCHANGED <<orchVars, wrunning, task_queue, threadVars, ctask, csnap,
                   assigned, created, finished, ncomplete>>

\* --------------------------------------------------- getTask and its result
\* A getTask that hands out the address of the stored record instead of a copy.
Worker_getTaskAlias(w, task_id) ==
    IF Worker_getTask(task_storage[w], task_id) # NoTask
    THEN [addr |-> "map", worker |-> w, id |-> task_id, task |-> NoTask]
    ELSE NullPtr

\* Worker::getTask of workers_[w] as the pointer it returns:
\* std::make_unique<Task>(it->second), a copy in the caller's memory, or nullptr.
Worker_getTaskPtr(w, task_id) ==
    IF Worker_getTask(task_storage[w], task_id) # NoTask
    THEN [addr |-> "heap", worker |-> w, id |-> task_id,
          task |-> Worker_getTask(task_storage[w], task_id)]
    ELSE NullPtr

\* *ptr: the Task a pointer gives access to
Deref(ptr) ==
    IF ptr.addr = "heap" THEN ptr.task
    ELSE IF ptr.addr = "map" THEN task_storage[ptr.worker][ptr.id]
    ELSE NoTask

\* A getTask that walks workers_ from the last worker to the first.
GetRoundReversed(c, w, task_id) ==
    LET v == NumWorkers - 1 - w
        ptr == Worker_getTaskPtr(v, task_id)
        last == ptr # NullPtr \/ w + 1 = NumWorkers
    IN /\ returned' = [NoRet EXCEPT !.op = "getTask", !.caller = c, !.worker = v,
                                    !.id = task_id, !.task = Deref(ptr),
                                    !.val = IF ptr # NullPtr THEN "found" ELSE "nullptr",
                                    !.final = last]
       /\ cpc' = [cpc EXCEPT ![c] = IF last THEN "idle" ELSE "get"]
       /\ cidx' = [cidx EXCEPT ![c] = IF last THEN 0 ELSE w + 1]
       /\ cid' = [cid EXCEPT ![c] = IF last THEN "" ELSE task_id]
       /\ csnap' = [csnap EXCEPT ![c] = IF last THEN ptr ELSE NullPtr]
       /\ UNCHANGED <<orchVars, workerVars, threadVars, ctask, cafter, histVars>>

\* One round of the loop of TaskOrchestrator::getTask for caller c, at
\* workers_[w]: Worker::getTask under storage_mutex_; a hit ends the call, a
\* nullptr goes to the next worker, and after the last worker the call
\* returns nullptr.
GetRound(c, w, task_id) ==
    LET ptr == Worker_getTaskPtr(w, task_id)
        last == ptr # NullPtr \/ w + 1 = NumWorkers
    IN /\ returned' = [NoRet EXCEPT !.op = "getTask", !.caller = c, !.worker = w,
                                    !.id = task_id, !.task = Deref(ptr),
                                    !.val = IF ptr # NullPtr THEN "found" ELSE "nullptr",
                                    !.final = last]
       /\ IF last
          THEN /\ cpc' = [cpc EXCEPT ![c] = "idle"]
               /\ cidx' = [cidx EXCEPT ![c] = 0]
               /\ cid' = [cid EXCEPT ![c] = ""]
               /\ csnap' = [csnap EXCEPT ![c] = ptr]
          ELSE /\ cpc' = [cpc EXCEPT ![c] = "get"]
               /\ cidx' = [cidx EXCEPT ![c] = w + 1]
               /\ cid' = [cid EXCEPT ![c] = task_id]
               /\ csnap' = [csnap EXCEPT ![c] = NullPtr]
       /\ UNCHANGED <<orchVars, workerVars, threadVars, ctask, cafter, histVars>>

\* TaskOrchestrator::getTask(task_id), called by caller c: the call and its
\* first round, at workers_[0].
GetTask(c, task_id) ==
    /\ Serving
    /\ cpc[c] = "idle"
    /\ GetRound(c, 0, task_id)

\* TaskOrchestrator::getTask, the later rounds of its loop
GetStep(c) ==
    /\ cpc[c] = "get"
    /\ GetRound(c, cidx[c], cid[c])

\* The caller changes the Task it was given: task->setStatus(FAILED) through
\* the pointer getTask returned.
SetSnapshot(c) ==
    /\ cpc[c] = "idle"
    /\ csnap[c] # NullPtr
    /\ Deref(csnap[c]).status # FAILED
    /\ IF csnap[c].addr = "heap"
       THEN /\ csnap' = [csnap EXCEPT ![c].task.status = FAILED]
            /\ UNCHANGED task_storage
       ELSE /\ task_storage' = [task_storage EXCEPT
                                  ![csnap[c].worker][csnap[c].id].status = FAILED]
            /\ UNCHANGED csnap
    /\ returned' = NoRet
    /\ UNCHANGED <<orchVars, wrunning, task_queue, stats, threadVars,
                   cpc, ctask, cid, cidx, cafter, histVars>>

\* ------------------------------------------------------------ getSystemStats
\* TaskOrchestrator::getSystemStats called by caller c, and the start of
\* updateSystemStats: the three totals of system_stats_ are set to 0.  The
\* member is shared by all callers and written without a lock.
GetSystemStats(c) ==
    /\ Serving
    /\ cpc[c] = "idle"
    /\ system_stats' = [system_stats EXCEPT !.total_tasks_processed = 0,
                                            !.total_tasks_completed = 0,
                                            !.total_tasks_failed = 0]
    /\ cpc' = [cpc EXCEPT ![c] = "sum"]
    /\ cidx' = [cidx EXCEPT ![c] = 0]
    /\ returned' = NoRet
    /\ UNCHANGED <<main, running, opc, oidx, current_worker, workerVars, threadVars,
                   ctask, cid, csnap, cafter, histVars>>

\* updateSystemStats, one round of its loop: Worker::getStats of
\* workers_[cidx] and the three additions to system_stats_.
StatsAdd(c) ==
    /\ cpc[c] = "sum"
    /\ cidx[c] < NumWorkers
    /\ LET st == stats[cidx[c]] IN
       system_stats' = [system_stats EXCEPT
                           !.total_tasks_processed = @ + st.tasks_processed,
                           !.total_tasks_completed = @ + st.tasks_completed,
                           !.total_tasks_failed = @ + st.tasks_failed]
    /\ cidx' = [cidx EXCEPT ![c] = @ + 1]
    /\ returned' = NoRet
    /\ UNCHANGED <<main, running, opc, oidx, current_worker, workerVars, threadVars,
                   cpc, ctask, cid, csnap, cafter, histVars>>

\* getSystemStats: return system_stats_, a copy of the member as it is now.
StatsReturn(c) ==
    /\ cpc[c] = "sum"
    /\ cidx[c] = NumWorkers
    /\ returned' = [NoRet EXCEPT !.op = "getSystemStats", !.caller = c,
                                 !.stats = system_stats, !.final = TRUE]
    /\ cpc' = [cpc EXCEPT ![c] = "idle"]
    /\ cidx' = [cidx EXCEPT ![c] = 0]
    /\ UNCHANGED <<orchVars, workerVars, threadVars, ctask, cid, csnap, cafter,
                   histVars>>

\* No call of getSystemStats is in progress.
NoStatsCall == \A c \in Callers : cpc[c] # "sum"

\* The workers' counters cannot change: nothing is queued, every thread is
\* blocked in the queue wait and no createTask or completeTask is in progress.
CountersAtRest ==
    /\ \A c \in Callers : cpc[c] \in {"idle", "sum"}
    /\ \A w \in Workers : task_queue[w] = <<>>
    /\ \A w \in Workers, t \in Threads : tpc[w][t] = "blocked"

\* ---------------------------------------------------------------- main.cpp
\* main: global_orchestrator->start()
MainStart ==
    /\ main.pc = "start"
    /\ main.saved = NoFrame
    /\ Start
    /\ main' = [main EXCEPT !.pc = "wait"]

\* main: start() has returned; waitForShutdown() returns once
\* shutdown_requested is set.
MainWait ==
    /\ main.pc = "wait"
    /\ main.saved = NoFrame
    /\ opc = "idle"
    /\ main.shutdown_requested
    /\ main' = [main EXCEPT !.pc = "stop"]
    /\ returned' = NoRet
    /\ UNCHANGED <<running, opc, oidx, current_worker, system_stats, workerVars,
                   threadVars, callerVars, histVars>>

\* main: global_orchestrator->stop()
MainStop ==
    /\ main.pc = "stop"
    /\ main.saved = NoFrame
    /\ Stop
    /\ main' = [main EXCEPT !.pc = "exit"]

\* signalHandler, run on the main thread wherever main is: it sets
\* shutdown_requested and calls stop().  On an orchestrator that is not
\* running stop() returns at once and so does the handler; on a running one
\* stop() goes through the workers while main stays where it was.
SignalHandler ==
    /\ main.saved = NoFrame
    /\ main.signals < MaxSignals
    /\ IF ~running
       THEN /\ main' = [main EXCEPT !.shutdown_requested = TRUE, !.signals = @ + 1]
            /\ UNCHANGED <<running, opc, oidx>>
       ELSE /\ main' = [main EXCEPT !.shutdown_requested = TRUE, !.signals = @ + 1,
                                    !.saved = [pc |-> opc, idx |-> oidx]]
            /\ running' = FALSE
            /\ opc' = "stopFlag"
            /\ oidx' = 0
    /\ returned' = NoRet
    /\ UNCHANGED <<current_worker, system_stats, workerVars, threadVars,
                   callerVars, histVars>>

\* ------------------------------------------------- functions called alone
\* The tasks isValid is asked about: every combination of empty and
\* non-empty id and title, known and unknown type and operation, and inputs
\* on both sides of every limit.
ValidityInputs == {-1, 0, 1, 2, 20, 21, 1000, 1001, 100000, 100001}

ValidityTasks ==
    { Task(id, title, MEDIUM, type, input, operation) :
        id \in {"", "t1"}, title \in {"", "Some title"},
        type \in {"calculation", "other"},
        input \in ValidityInputs,
        operation \in {"factorial", "fibonacci", "prime_check", "sqrt", ""} }

\* task.isValid() is called on a task and returns.
IsValidCall(task) ==
    /\ returned = NoRet
    /\ returned' = [NoRet EXCEPT !.op = "isValid", !.task = task,
                                 !.val = IF Task_isValid(task) THEN "true" ELSE "false",
                                 !.final = TRUE]
    /\ UNCHANGED <<orchVars, workerVars, threadVars, callerVars, histVars>>

\* validateTaskInput(task) is called on a task, as createTask calls it, and
\* returns.
ValidateTaskInputCall(task) ==
    /\ returned = NoRet
    /\ returned' = [NoRet EXCEPT !.op = "validateTaskInput", !.task = task,
                                 !.val = IF validateTaskInput(task) THEN "true"
                                         ELSE "false",
                                 !.final = TRUE]
    /\ UNCHANGED <<orchVars, workerVars, threadVars, callerVars, histVars>>

\* What a call of a calculation gives back: the string returned, or the
\* message of the std::invalid_argument thrown.
CalcReturn(op, n, r) ==
    [NoRet EXCEPT !.op = op, !.input = n,
                  !.val = IF r.ok THEN r.value ELSE "",
                  !.error = IF r.ok THEN "" ELSE r.value,
                  !.final = TRUE]

\* calculations::factorial(n) is called and returns or throws.
FactorialCall(n) ==
    /\ returned = NoRet
    /\ returned' = CalcReturn("factorial", n, factorial(n))
    /\ UNCHANGED <<orchVars, workerVars, threadVars, callerVars, histVars>>

\* calculations::fibonacci(n) is called and returns or throws.
FibonacciCall(n) ==
    /\ returned = NoRet
    /\ returned' = CalcReturn("fibonacci", n, fibonacci(n))
    /\ UNCHANGED <<orchVars, workerVars, threadVars, callerVars, histVars>>

\* calculations::prime_check(n) is called and returns or throws.
PrimeCheckCall(n) ==
    /\ returned = NoRet
    /\ returned' = CalcReturn("prime_check", n, prime_check(n))
    /\ UNCHANGED <<orchVars, workerVars, threadVars, callerVars, histVars>>

\* The strings stringToTaskStatus is called on: the four names of a status
\* and strings that are none of them.
StatusStrings ==
    {"pending", "processing", "completed", "failed",
     "invalid", "", "unknown", "PENDING", "Failed", "complete", "failed "}

\* taskStatusToString(status) is called and returns.
TaskStatusToStringCall(status) ==
    /\ returned = NoRet
    /\ returned' = [NoRet EXCEPT !.op = "taskStatusToString", !.arg = status,
                                 !.val = taskStatusToString(status), !.final = TRUE]
    /\ UNCHANGED <<orchVars, workerVars, threadVars, callerVars, histVars>>

\* stringToTaskStatus(str) is called and returns.
StringToTaskStatusCall(str) ==
    /\ returned = NoRet
    /\ returned' = [NoRet EXCEPT !.op = "stringToTaskStatus", !.arg = str,
                                 !.val = stringToTaskStatus(str), !.final = TRUE]
    /\ UNCHANGED <<orchVars, workerVars, threadVars, callerVars, histVars>>

\* stringToTaskStatus(taskStatusToString(status)) is called and returns.
StatusRoundTripCall(status) ==
    /\ returned = NoRet
    /\ returned' = [NoRet EXCEPT !.op = "stringToTaskStatus(taskStatusToString)",
                                 !.arg = status,
                                 !.val = stringToTaskStatus(taskStatusToString(status)),
                                 !.final = TRUE]
    /\ UNCHANGED <<orchVars, workerVars, threadVars, callerVars, histVars>>

\* The inputs of fibonacci called alone
FibonacciInputs == (-MaxNegative) .. MaxFibonacci

\* ---------------------------------------------------------- specification
ThreadStep(w, t) ==
    \/ ThreadLoop(w, t)
    \/ ThreadWait(w, t)
    \/ ProcessStart(w, t)
    \/ ProcessCalc(w, t)
    \/ CountProcessed(w, t)

AddTaskStep(c) ==
    \/ AddTaskPush(c)
    \/ AddTaskStore(c)
    \/ AddTaskNotify(c)

\* The running system: the orchestrator is started, callers create tasks that
\* pass validation and complete tasks; every task enters through createTask.
Next ==
    \/ ~running /\ Start /\ UNCHANGED main
    \/ StartWorker
    \/ \E w \in Workers, t \in Threads : ThreadStep(w, t)
    \/ \E c \in Callers :
          \/ \E task \in ValidPayloads : current_worker < MaxCreate /\ CreateTask(c, task)
          \/ AddTaskStep(c)
          \/ \E task_id \in Ids : CompleteTask(c, task_id)
          \/ CompleteStep(c)

Spec == Init /\ [][Next]_vars

\* Task creation alone: callers submit any payload, valid or not.
NextCreate ==
    \/ ~running /\ Start /\ UNCHANGED main
    \/ StartWorker
    \/ \E w \in Workers, t \in Threads : ThreadStep(w, t)
    \/ \E c \in Callers :
          \/ \E task \in Payloads : current_worker < MaxDistribute /\ CreateTask(c, task)
          \/ AddTaskStep(c)

SpecCreate == Init /\ [][NextCreate]_vars

\* Lookups next to creation: one id is submitted, possibly twice, while
\* callers look up both ids and may change the Task they were given.
NextGet ==
    \/ ~running /\ Start /\ UNCHANGED main
    \/ StartWorker
    \/ \E w \in Workers, t \in Threads : ThreadStep(w, t)
    \/ \E c \in Callers :
          \/ current_worker < MaxCreate /\ CreateTask(c, ValidPayload("t1"))
          \/ AddTaskStep(c)
          \/ \E task_id \in Ids : GetTask(c, task_id)
          \/ GetStep(c)
          \/ SetSnapshot(c)

SpecGet == Init /\ [][NextGet]_vars

\* Statistics: tasks are created, processed and completed; GET /stats is
\* served while the workers' counters are at rest, to several callers at once.
NextStats ==
    \/ ~running /\ Start /\ UNCHANGED main
    \/ StartWorker
    \/ \E w \in Workers, t \in Threads : ThreadStep(w, t)
    \/ \E c \in Callers :
          \/ \E task \in ValidPayloads :
                current_worker < MaxCreate /\ NoStatsCall /\ CreateTask(c, task)
          \/ AddTaskStep(c)
          \/ \E task_id \in Ids : NoStatsCall /\ CompleteTask(c, task_id)
          \/ CompleteStep(c)
          \/ CountersAtRest /\ GetSystemStats(c)
          \/ StatsAdd(c)
          \/ StatsReturn(c)

SpecStats == Init /\ [][NextStats]_vars

\* with Task::from_json and calls createTask; POST /task/{id}/complete calls
\* completeTask.
NextRoutes ==
    \/ ~running /\ Start /\ UNCHANGED main
    \/ StartWorker
    \/ \E w \in Workers, t \in Threads : ThreadStep(w, t)
    \/ \E c \in Callers :
          \/ \E j \in JsonPayloads :
                current_worker < MaxCreate /\ CreateTask(c, Task_from_json(j))
          \/ AddTaskStep(c)
          \/ \E task_id \in Ids : CompleteTask(c, task_id)
          \/ CompleteStep(c)

SpecRoutes == Init /\ [][NextRoutes]_vars


\* The life cycle: start() and stop() are called in any order and any number
\* of times while callers create tasks.
StopStep ==
    \/ StopWorkerFlag
    \/ StopWorkerNotify
    \/ StopWorkerJoin
    \/ StopServer

NextLife ==
    \/ Start /\ UNCHANGED main
    \/ StartWorker
    \/ Stop /\ UNCHANGED main
    \/ StopStep
    \/ \E w \in Workers, t \in Threads : ThreadStep(w, t)
    \/ \E c \in Callers :
          \/ \E task \in ValidPayloads : current_worker < MaxCreate /\ CreateTask(c, task)
          \/ AddTaskStep(c)

SpecLife == Init /\ [][NextLife]_vars


\* The life cycle with its scheduling: as long as a processing thread, a
\* start() or stop() under way or an addTask under way can take a step, one
\* of them does; and a thread that has started a calculation finishes it
\* (weak fairness of ProcessCalc, which alone leaves "proc2").  New requests
\* and new calls of start() and stop() may never come.
LifeProgress ==
    \/ \E w \in Workers, t \in Threads :
          \/ ThreadLoop(w, t)
          \/ ThreadWait(w, t)
          \/ ProcessStart(w, t)
          \/ CountProcessed(w, t)
    \/ StopStep
    \/ StartWorker
    \/ \E c \in Callers : AddTaskStep(c)

LifeFairness ==
    /\ WF_vars(LifeProgress)
    /\ \A w \in Workers, t \in Threads : []<>(tpc[w][t] # "proc2")

SpecLifeFair == Init /\ [][NextLife]_vars /\ LifeFairness


\* The program: main starts the orchestrator, waits for a signal and stops
\* it; SIGINT or SIGTERM arrive at any moment and run signalHandler.
\* A system that is started and never stopped, with its scheduling (that of
\* LifeFairness): callers create tasks, threads process them.
NextWork ==
    \/ ~running /\ Start /\ UNCHANGED main
    \/ StartWorker
    \/ \E w \in Workers, t \in Threads : ThreadStep(w, t)
    \/ \E c \in Callers :
          \/ \E task \in ValidPayloads : current_worker < MaxCreate /\ CreateTask(c, task)
          \/ AddTaskStep(c)

SpecWorkFair == Init /\ [][NextWork]_vars /\ LifeFairness

NextSignal ==
    \/ MainStart
    \/ StartWorker
    \/ MainWait
    \/ MainStop
    \/ SignalHandler
    \/ StopStep
    \/ \E w \in Workers, t \in Threads : ThreadLoop(w, t) \/ ThreadWait(w, t)

SpecSignal == Init /\ [][NextSignal]_vars


\* Class Worker used through its own interface: tasks are handed to
\* Worker::addTask of any worker, each id once, and some of them fail in
\* the calculation.
NextWorker ==
    \/ ~running /\ Start /\ UNCHANGED main
    \/ StartWorker
    \/ \E w \in Workers, t \in Threads : ThreadStep(w, t) \/ CountFailed(w, t)
    \/ \E c \in Callers :
          \/ \E w \in Workers, task \in WorkerTasks :
                created[task.id] < 1 /\ Worker_addTask(c, w, task)
          \/ AddTaskStep(c)
          \/ \E task_id \in Ids : CompleteTask(c, task_id)
          \/ CompleteStep(c)

SpecWorker == Init /\ [][NextWorker]_vars


\* ------------------------------------------------- the two mutexes of a worker
\* The lock scopes of worker.cpp.  A lock_guard or unique_lock is held from
\* its construction to the end of its block (or unlock(), or the wait), so
\* what an agent holds is a function of its position: "xLocked" is agent at
\* position x after the lock it wanted there has been granted.

\* Lock scopes as they would be if the first lock_guard of addTask lived to
\* the end of the function: queue_mutex_ is still held around the second.
LocksHeldNested(pos) ==
    IF pos \in {"pushLocked", "store", "loopLocked", "wokenLocked"} THEN {"queue_mutex_"}
    ELSE IF pos = "storeLocked" THEN {"queue_mutex_", "storage_mutex_"}
    ELSE IF pos \in {"completeLocked", "getLocked", "proc1Locked", "proc2Locked"}
    THEN {"storage_mutex_"}
    ELSE {}

\* The mutexes of its worker an agent holds at position pos
LocksHeld(pos) ==
    IF pos \in {"pushLocked", "loopLocked", "wokenLocked"} THEN {"queue_mutex_"}
    ELSE IF pos \in {"storeLocked", "completeLocked", "getLocked",
                     "proc1Locked", "proc2Locked"}
    THEN {"storage_mutex_"}
    ELSE {}

\* The mutex an agent at position pos is about to lock, "" if none
LockWanted(pos) ==
    IF pos \in {"push", "loop", "woken"} THEN "queue_mutex_"
    ELSE IF pos \in {"store", "complete", "get", "proc1", "proc2"} THEN "storage_mutex_"
    ELSE ""

\* No processing thread of worker w and no caller inside a function of
\* worker w holds mutex.
MutexFree(w, mutex) ==
    /\ \A t \in Threads : mutex \notin LocksHeld(tpc[w][t])
    /\ \A c \in Callers : cidx[c] = w => mutex \notin LocksHeld(cpc[c])

\* A processing thread locks the mutex it wants: the unique_lock of
\* processTaskLoop (or the wait taking the mutex again), a lock_guard of
\* processTask.
ThreadLock(w, t) ==
    /\ LockWanted(tpc[w][t]) # ""
    /\ MutexFree(w, LockWanted(tpc[w][t]))
    /\ tpc' = [tpc EXCEPT ![w][t] = @ \o "Locked"]
    /\ returned' = NoRet
    /\ UNCHANGED <<orchVars, workerVars, ttask, callerVars, histVars>>

\* A processing thread runs the block it holds a mutex for and releases the
\* mutex: in processTaskLoop the wait predicate, the running_ check and the
\* pop (the wait releases the mutex as it blocks); in processTask the store
\* of the PROCESSING record, and the store of the result or of the error.
ThreadSection(w, t) ==
    /\ LocksHeld(tpc[w][t]) # {}
    /\ IF tpc[w][t] \in {"loopLocked", "wokenLocked"}
       THEN /\ IF ~wrunning[w]
               THEN /\ tpc' = [tpc EXCEPT ![w][t] = "off"]
                    /\ UNCHANGED <<task_queue, ttask>>
               ELSE IF task_queue[w] = <<>>
               THEN /\ tpc' = [tpc EXCEPT ![w][t] = "blocked"]
                    /\ UNCHANGED <<task_queue, ttask>>
               ELSE /\ ttask' = [ttask EXCEPT ![w][t] = Head(task_queue[w])]
                    /\ task_queue' = [task_queue EXCEPT ![w] = Tail(@)]
                    /\ tpc' = [tpc EXCEPT ![w][t] = "proc1"]
            /\ UNCHANGED task_storage
       ELSE LET r == execute_calculation(ttask[w][t].operation, ttask[w][t].input)
                task == IF tpc[w][t] = "proc1Locked"
                        THEN [ttask[w][t] EXCEPT !.status = PROCESSING]
                        ELSE IF r.ok
                        THEN [ttask[w][t] EXCEPT !.result = r.value]
                        ELSE [ttask[w][t] EXCEPT !.error_message = r.value,
                                                 !.status = FAILED]
            IN /\ ttask' = [ttask EXCEPT ![w][t] = task]
               /\ task_storage' = [task_storage EXCEPT ![w][task.id] = task]
               /\ tpc' = [tpc EXCEPT ![w][t] =
                              IF tpc[w][t] = "proc1Locked" THEN "proc2"
                              ELSE IF r.ok THEN "count" ELSE "countFailed"]
               /\ UNCHANGED task_queue
    /\ returned' = NoRet
    /\ UNCHANGED <<orchVars, wrunning, stats, callerVars, histVars>>

\* TaskOrchestrator::completeTask(task_id) or getTask(task_id) is called by
\* caller c, who comes to the lock_guard of the function of workers_[0].
CallBegin(c, op, task_id) ==
    /\ Serving
    /\ cpc[c] = "idle"
    /\ op = "complete" => ncomplete < MaxComplete
    /\ ncomplete' = IF op = "complete" THEN ncomplete + 1 ELSE ncomplete
    /\ cpc' = [cpc EXCEPT ![c] = op]
    /\ cidx' = [cidx EXCEPT ![c] = 0]
    /\ cid' = [cid EXCEPT ![c] = task_id]
    /\ cafter' = [cafter EXCEPT ![c] = /\ op = "complete"
                                       /\ task_id \in finished
                                       /\ \A d \in Callers : ctask[d].id # task_id]
    /\ returned' = NoRet
    /\ UNCHANGED <<orchVars, workerVars, threadVars, ctask, csnap,
                   assigned, created, succ, finished, doneAfter>>

\* A caller locks the mutex it wants: a lock_guard of addTask, of
\* completeTask or of getTask of worker cidx[c].
CallerLock(c) ==
    /\ LockWanted(cpc[c]) # ""
    /\ MutexFree(cidx[c], LockWanted(cpc[c]))
    /\ cpc' = [cpc EXCEPT ![c] = @ \o "Locked"]
    /\ returned' = NoRet
    /\ UNCHANGED <<orchVars, workerVars, threadVars, ctask, cid, cidx, csnap, cafter,
                   histVars>>

\* A caller runs the block it holds a mutex for and releases the mutex: the
\* push or the store of addTask, Worker::completeTask, Worker::getTask.
CallerSection(c) ==
    /\ LocksHeld(cpc[c]) # {}
    /\ IF cpc[c] = "pushLocked"
       THEN /\ task_queue' = [task_queue EXCEPT ![cidx[c]] = Append(@, ctask[c])]
            /\ cpc' = [cpc EXCEPT ![c] = "store"]
            /\ returned' = NoRet
            /\ UNCHANGED <<orchVars, wrunning, task_storage, stats, threadVars,
                           ctask, cid, cidx, csnap, cafter, histVars>>
       ELSE IF cpc[c] = "storeLocked"
       THEN /\ task_storage' = [task_storage EXCEPT ![cidx[c]][ctask[c].id] = ctask[c]]
            /\ cpc' = [cpc EXCEPT ![c] = "notify"]
            /\ returned' = NoRet
            /\ UNCHANGED <<orchVars, wrunning, task_queue, stats, threadVars,
                           ctask, cid, cidx, csnap, cafter, histVars>>
       ELSE IF cpc[c] = "completeLocked"
       THEN /\ CompleteRound(c, cidx[c], cid[c], cafter[c])
            /\ UNCHANGED <<orchVars, wrunning, task_queue, threadVars, ctask, csnap,
                           assigned, created, finished, ncomplete>>
       ELSE GetRound(c, cidx[c], cid[c])

\* The worker's functions with every lock and unlock a step of its own.
NextLocks ==
    \/ ~running /\ Start /\ UNCHANGED main
    \/ StartWorker
    \/ \E w \in Workers, t \in Threads :
          \/ ThreadLock(w, t)
          \/ ThreadSection(w, t)
          \/ CountProcessed(w, t)
    \/ \E c \in Callers :
          \/ \E task \in ValidPayloads :
                c % 2 = 1 /\ current_worker < MaxCreate /\ CreateTask(c, task)
          \/ \E op \in {"complete", "get"}, task_id \in Ids :
                c % 2 = 0 /\ csnap[c] = NullPtr /\ CallBegin(c, op, task_id)
          \/ CallerLock(c)
          \/ CallerSection(c)
          \/ AddTaskNotify(c)

SpecLocks == Init /\ [][NextLocks]_vars

\* The functions of task.cpp and calculations.cpp called alone, on inputs
\* from bounded sets: one call in a behaviour.
NextPure ==
    \/ \E task \in ValidityTasks : IsValidCall(task)
    \/ \E task \in ValidityTasks : ValidateTaskInputCall(task)
    \/ \E n \in (-MaxNegative) .. MaxFactorial : FactorialCall(n)
    \/ \E n \in FibonacciInputs : FibonacciCall(n)
    \/ \E n \in (-MaxNegative) .. MaxPrime : PrimeCheckCall(n)
    \/ \E status \in TaskStatus : TaskStatusToStringCall(status)
    \/ \E str \in StatusStrings : StringToTaskStatusCall(str)
    \/ \E status \in TaskStatus : StatusRoundTripCall(status)

SpecPure == Init /\ [][NextPure]_vars


\* ------------------------------------------------------- common notions
\* The record of task_id in worker w's task_storage_ (NoTask: no record)
Record(w, task_id) == task_storage[w][task_id]

Holders(task_id) == { w \in Workers : Record(w, task_id) # NoTask }

\* TaskOrchestrator::getTask: the first hit in index order, or NoTask
RECURSIVE FirstHit(_, _)
FirstHit(w, task_id) ==
    IF w >= NumWorkers THEN NoTask
    ELSE IF Worker_getTask(task_storage[w], task_id) # NoTask
    THEN Worker_getTask(task_storage[w], task_id)
    ELSE FirstHit(w + 1, task_id)

TaskOrchestrator_getTask(task_id) == FirstHit(0, task_id)

\* The step being taken is a round of completeTask at worker w for task_id.
CompleteRoundAt(w, task_id) ==
    /\ returned'.op = "completeTask"
    /\ returned'.worker = w
    /\ returned'.id = task_id

\* The step being taken is a step of a processing thread of worker w.
ThreadStepOf(w) ==
    \E t \in Threads : tpc[w][t] # "blocked" /\ tpc'[w][t] # tpc[w][t]

\* Nothing is in progress and nothing will move without a new call: every
\* caller is idle, every queue is empty and every processing thread is
\* blocked in the queue wait.
Quiescent ==
    /\ Serving
    /\ \A c \in Callers : cpc[c] = "idle"
    /\ \A w \in Workers : task_queue[w] = <<>>
    /\ \A w \in Workers, t \in Threads : tpc[w][t] = "blocked"

\* Every call of createTask and completeTask has returned.
AllReturned == \A c \in Callers : cpc[c] = "idle"

\* ------------------------------------------------------------------ C1
StatusAdvance(old, new) ==
    \/ new = old
    \/ old = "none" /\ new \in {PENDING, PROCESSING}
    \/ old = PENDING /\ new = PROCESSING
    \/ old = PROCESSING /\ new \in {COMPLETED, FAILED}

\* C1: for a task id submitted once, every step changes the status of the
\* stored record only forwards: PENDING -> PROCESSING -> COMPLETED or FAILED,
\* never backwards and never past PROCESSING.
C1_StatusOnlyAdvances ==
    [][\A w \in Workers, i \in Ids :
          created'[i] <= 1 =>
             StatusAdvance(Record(w, i).status, Record(w, i)'.status)]_vars

\* ------------------------------------------------------------------ C2
\* C2: a stored record becomes COMPLETED only in a round of completeTask for
\* its id at its worker that returns true; no step of a processing thread sets
\* COMPLETED; the thread's store of a computed result leaves the record
\* PROCESSING with that result, and the record of a task submitted once then
\* stays PROCESSING until a round of completeTask for it.
C2_CompletedOnlyByCompleteTask ==
    [][\A w \in Workers, i \in Ids :
          /\ (Record(w, i)'.status = COMPLETED /\ Record(w, i).status # COMPLETED)
                => (CompleteRoundAt(w, i) /\ returned'.val = "true")
          /\ ThreadStepOf(w) =>
                (Record(w, i)'.status = COMPLETED => Record(w, i).status = COMPLETED)
          /\ \A t \in Threads :
                (tpc[w][t] = "proc2" /\ tpc'[w][t] = "count" /\ ttask[w][t].id = i)
                   => (Record(w, i)'.status = PROCESSING /\ Record(w, i)'.result # "")
          /\ (created'[i] <= 1 /\ Record(w, i).status = PROCESSING
                 /\ Record(w, i).result # "" /\ Record(w, i)'.status # PROCESSING)
                => CompleteRoundAt(w, i)
      ]_vars

\* A thread has computed and stored a result, the record is PROCESSING and no
\* completeTask has been called.
C2_Witness ==
    \E w \in Workers, i \in Ids :
       /\ Record(w, i).status = PROCESSING
       /\ Record(w, i).result # ""
       /\ i \in finished
       /\ ncomplete = 0


\* ------------------------------------------------------------------ C3
\* C3: on the started orchestrator, once createTask has returned the id of a
\* valid task and no completeTask has been called, the system does not come to
\* rest before getTask(id) gives PROCESSING with a non-empty result: when
\* nothing is left to run, that is what getTask gives.
C3_ProcessedAtRest ==
    \A i \in Ids :
       (created[i] = 1 /\ ~InCreateTask(i) /\ ncomplete = 0 /\ Quiescent)
          => /\ TaskOrchestrator_getTask(i).status = PROCESSING
             /\ TaskOrchestrator_getTask(i).result # ""

\* ------------------------------------------------------------------ C4
CompletablePre(w, task_id) ==
    /\ Record(w, task_id) # NoTask
    /\ Record(w, task_id).status = PROCESSING
    /\ Record(w, task_id).result # ""

\* C4: Worker.completeTask(id) returns true exactly when the stored record
\* exists, is PROCESSING and has a non-empty result when called; it then
\* leaves the record COMPLETED and tasks_completed one higher.
C4_CompleteTaskSuccess ==
    [][\A w \in Workers, i \in Ids :
          CompleteRoundAt(w, i) =>
             /\ (returned'.val = "true") <=> CompletablePre(w, i)
             /\ returned'.val = "true" =>
                   /\ Record(w, i)'.status = COMPLETED
                   /\ stats'[w].tasks_completed = stats[w].tasks_completed + 1
      ]_vars

\* A completeTask round has just returned true and left the record COMPLETED.
C4_Witness ==
    /\ returned.op = "completeTask"
    /\ returned.val = "true"
    /\ Record(returned.worker, returned.id).status = COMPLETED
    /\ stats[returned.worker].tasks_completed = 1

\* ------------------------------------------------------------------ C5
RECURSIVE SumCompleted(_)
SumCompleted(w) ==
    IF w >= NumWorkers THEN 0 ELSE stats[w].tasks_completed + SumCompleted(w + 1)

RECURSIVE SumSucc(_)
SumSucc(n) == IF n = 0 THEN 0 ELSE succ[IdNames[n]] + SumSucc(n - 1)

\* C5: of the completeTask calls for a task submitted once, at most one
\* returns true; a call that finds the record PROCESSING with a result returns
\* true and leaves it COMPLETED; a call that finds it COMPLETED returns false
\* and leaves it COMPLETED and the counters as they are; tasks_completed has
\* grown by one for every call that returned true and by nothing else; and
\* once a call has returned true and every call has returned, the record is
\* COMPLETED.
C5_CompleteIdempotent ==
    /\ [](\A i \in Ids : created[i] <= 1 => succ[i] <= 1)
    /\ [](\A i \in Ids : (created[i] = 1 /\ succ[i] = 1 /\ AllReturned)
                              => TaskOrchestrator_getTask(i).status = COMPLETED)
    /\ [](SumCompleted(0) = SumSucc(NumIds))
    /\ [][\A w \in Workers, i \in Ids :
             CompleteRoundAt(w, i) =>
                /\ CompletablePre(w, i) =>
                      (returned'.val = "true" /\ Record(w, i)'.status = COMPLETED)
                /\ Record(w, i).status = COMPLETED =>
                      /\ returned'.val = "false"
                      /\ Record(w, i)'.status = COMPLETED
                      /\ stats' = stats
         ]_vars

\* A second completeTask for a task submitted once has just failed on the
\* COMPLETED record, after a first one succeeded.
C5_Witness ==
    \E i \in Ids :
       /\ created[i] = 1
       /\ succ[i] = 1
       /\ ncomplete >= 2
       /\ returned.op = "completeTask"
       /\ returned.id = i
       /\ returned.val = "false"
       /\ Record(returned.worker, i).status = COMPLETED
       /\ SumCompleted(0) = 1

\* ------------------------------------------------------------------ C6
NotCompletablePre(w, task_id) ==
    \/ Record(w, task_id).status \in {PENDING, COMPLETED, FAILED}
    \/ /\ Record(w, task_id).status = PROCESSING
       /\ Record(w, task_id).result = ""
       /\ Record(w, task_id).error_message = ""

\* C6: completeTask on a record that is PENDING, PROCESSING with neither
\* result nor error, COMPLETED or FAILED returns false and changes no record,
\* no queue and no counter.
C6_CompleteTaskNoEffect ==
    [][\A w \in Workers, i \in Ids :
          (CompleteRoundAt(w, i) /\ NotCompletablePre(w, i)) =>
             /\ returned'.val = "false"
             /\ task_storage' = task_storage
             /\ task_queue' = task_queue
             /\ stats' = stats
      ]_vars

\* A completeTask round has just failed on a FAILED record, after earlier
\* rounds had failed on a record not yet computed.
C6_Witness ==
    /\ returned.op = "completeTask"
    /\ returned.val = "false"
    /\ Record(returned.worker, returned.id).status = FAILED
    /\ ncomplete >= 2


\* ------------------------------------------------------------------ C7
\* Tasks pushed on worker w's queue so far: those still queued, those a
\* thread is processing and those counted as processed.
Received(w) ==
    Len(task_queue[w])
    + Cardinality({ t \in Threads : tpc[w][t] \in {"proc1", "proc2", "count", "countFailed"} })
    + stats[w].tasks_processed

AssignedTo(w) == Cardinality({ n \in 1 .. Len(assigned) : assigned[n] = w })

\* C7: the i-th task distributed (from 0) is given worker i mod W; once every
\* createTask has returned each worker has received the tasks given to it,
\* and after k*W tasks that is exactly k tasks per worker.
C7_RoundRobin ==
    /\ \A n \in 1 .. Len(assigned) : assigned[n] = (n - 1) % NumWorkers
    /\ AllReturned => \A w \in Workers : Received(w) = AssignedTo(w)
    /\ (AllReturned /\ current_worker % NumWorkers = 0)
          => \A w \in Workers : Received(w) = current_worker \div NumWorkers

\* 2*W tasks have been created and every worker has received two of them.
C7_Witness ==
    /\ AllReturned
    /\ current_worker = 2 * NumWorkers
    /\ \A w \in Workers : Received(w) = 2

\* ------------------------------------------------------------------ C8
\* C8: createTask distributes a task only if it passes validateTaskInput; for
\* a task that does not pass it throws, returns no id and leaves every queue,
\* map, counter and thread - and the round-robin counter - as they were.
C8_InvalidRejected ==
    [][/\ \A c \in Callers :
             (cpc[c] = "idle" /\ cpc'[c] = "push") => validateTaskInput(ctask'[c])
       /\ (returned'.op = "createTask" /\ returned'.val # "")
             => validateTaskInput(returned'.task)
       /\ (returned'.op = "createTask" /\ returned'.error # "")
             => /\ ~validateTaskInput(returned'.task)
                /\ returned'.val = ""
                /\ UNCHANGED <<workerVars, threadVars, callerVars, current_worker,
                               assigned, created>>
      ]_vars

\* An invalid task has just been rejected while other tasks are in the workers.
C8_Witness ==
    /\ returned.op = "createTask"
    /\ returned.error # ""
    /\ ~validateTaskInput(returned.task)
    /\ current_worker >= 2
    /\ \E w \in Workers : task_queue[w] # <<>>

\* ------------------------------------------------------------------ C9
\* C9: the addTask of an accepted task pushes it on the queue of one worker,
\* the one selectWorker chose, and writes it to the map of that same worker;
\* no step of createTask changes another worker's queue or map; once
\* createTask has returned for an id submitted once, exactly one worker's map
\* holds the id, and never more than one.
C9_HandedToOneWorker ==
    /\ [](\A i \in Ids : created[i] = 1 =>
             /\ Cardinality(Holders(i)) <= 1
             /\ ~InCreateTask(i) => Cardinality(Holders(i)) = 1)
    /\ [][\A c \in Callers :
             LET w == cidx[c] IN
             /\ (cpc[c] = "idle" /\ cpc'[c] = "push")
                   => /\ task_queue' = task_queue
                      /\ task_storage' = task_storage
                      /\ cidx'[c] = assigned'[Len(assigned')]
             /\ (cpc[c] = "push" /\ cpc'[c] = "store")
                   => /\ task_queue'[w] = Append(task_queue[w], ctask[c])
                      /\ \A v \in Workers \ {w} : task_queue'[v] = task_queue[v]
                      /\ task_storage' = task_storage
                      /\ cidx'[c] = w
             /\ (cpc[c] = "store" /\ cpc'[c] = "notify")
                   => /\ task_storage'[w][ctask[c].id] = ctask[c]
                      /\ \A v \in Workers \ {w} : task_storage'[v] = task_storage[v]
                      /\ \A i \in Ids \ {ctask[c].id} :
                            task_storage'[w][i] = task_storage[w][i]
                      /\ task_queue' = task_queue
                      /\ cidx'[c] = w
             /\ (cpc[c] = "notify" /\ cpc'[c] = "idle")
                   => /\ task_queue' = task_queue
                      /\ task_storage' = task_storage
         ]_vars

\* createTask has just returned for an id submitted once, handed to worker 1:
\* worker 1 holds the record and worker 0 does not.
C9_Witness ==
    /\ returned.op = "createTask"
    /\ returned.val # ""
    /\ returned.worker = 1
    /\ created[returned.val] = 1
    /\ Holders(returned.val) = {1}

\* ----------------------------------------------------------------- C10
\* C10: for tasks with distinct ids, created and completed by concurrent
\* callers: once createTask has returned, the id is retrievable through
\* getTask and lives in exactly one worker; and once a completeTask that was
\* called after the task was created and processed has returned, the record
\* is COMPLETED or FAILED.
C10_NoTaskLost ==
    \A i \in Ids :
       (created[i] = 1 /\ ~InCreateTask(i)) =>
          /\ Cardinality(Holders(i)) = 1
          /\ TaskOrchestrator_getTask(i).id = i
          /\ i \in doneAfter =>
                TaskOrchestrator_getTask(i).status \in {COMPLETED, FAILED}


\* ----------------------------------------------------------------- C11
\* C11: getTask(id) asks the workers in index order, the first round at
\* worker 0 and each later round at the next worker; a round at a worker whose
\* map contains id ends the call with a copy of that worker's record - the
\* record of the lowest-index holder whenever no lower worker holds id - and
\* a round at a worker without id goes on to the next worker; nullptr is
\* returned only after the last worker was asked without a hit, always for an
\* id never submitted, and then, if no lower worker holds id, no worker does.
\* A map never loses an id.
C11_GetTaskFirstHit ==
    [][/\ \A w \in Workers, i \in Ids : Record(w, i) # NoTask => Record(w, i)' # NoTask
       /\ \A c \in Callers :
             (returned'.op = "getTask" /\ returned'.caller = c) =>
                LET w == returned'.worker
                    i == returned'.id
                    lowest == \A v \in Workers : v < w => Record(v, i) = NoTask
                IN /\ cpc[c] \in {"idle", "get"}
                   /\ w = IF cpc[c] = "get" THEN cidx[c] ELSE 0
                   /\ cpc[c] = "get" => i = cid[c]
                   /\ Record(w, i) # NoTask =>
                         /\ returned'.final
                         /\ returned'.val = "found"
                         /\ returned'.task = Record(w, i)
                         /\ Deref(csnap'[c]) = Record(w, i)
                         /\ lowest => returned'.task = TaskOrchestrator_getTask(i)
                   /\ (Record(w, i) = NoTask /\ w + 1 < NumWorkers) =>
                         /\ ~returned'.final
                         /\ cpc'[c] = "get"
                         /\ cidx'[c] = w + 1
                         /\ cid'[c] = i
                   /\ (Record(w, i) = NoTask /\ w + 1 = NumWorkers) =>
                         /\ returned'.final
                         /\ returned'.val = "nullptr"
                         /\ csnap'[c] = NullPtr
                         /\ lowest => Holders(i) = {}
                   /\ returned'.final => cpc'[c] = "idle"
                   /\ created[i] = 0 => returned'.val = "nullptr"
      ]_vars

\* getTask has just returned the record of worker 0 for an id that worker 1
\* holds as well, with another status.
C11_Witness ==
    /\ returned.op = "getTask"
    /\ returned.final
    /\ returned.worker = 0
    /\ Holders(returned.id) = Workers
    /\ returned.task = Record(0, returned.id)
    /\ Record(0, returned.id).status # Record(1, returned.id).status


\* ----------------------------------------------------------------- C12
\* The step is caller c's own: a round of one of its calls, or a change it
\* makes to the Task its pointer addresses.
OwnStep(c) ==
    \/ cpc'[c] # cpc[c]
    \/ csnap'[c] # csnap[c]
    \/ returned'.caller = c

\* C12: a round of getTask changes no queue, no map entry, no counter and no
\* thread; the Task a caller was given stays as it is through every step that
\* is not the caller's own (the processing and completion of the stored
\* record included); and when the caller changes that Task, no stored record
\* changes.
C12_GetTaskSnapshot ==
    [][/\ returned'.op = "getTask" =>
             UNCHANGED <<workerVars, threadVars, current_worker, system_stats, histVars>>
       /\ \A c \in Callers :
             /\ (csnap[c] # NullPtr /\ ~OwnStep(c)) =>
                   Deref(csnap[c])' = Deref(csnap[c])
             /\ (csnap[c] # NullPtr /\ cpc'[c] = cpc[c] /\ cpc[c] = "idle"
                    /\ returned' = NoRet /\ Deref(csnap[c])' # Deref(csnap[c]))
                   => task_storage' = task_storage
      ]_vars

\* A caller holds a Task it was given while the record was PENDING and has set
\* it to FAILED; the stored record has since been processed and is PROCESSING
\* with a result.
C12_Witness ==
    \E c \in Callers :
       /\ csnap[c] # NullPtr
       /\ Deref(csnap[c]).status = FAILED
       /\ Deref(csnap[c]).result = ""
       /\ Record(csnap[c].worker, csnap[c].id).status = PROCESSING
       /\ Record(csnap[c].worker, csnap[c].id).result # ""


\* ----------------------------------------------------------------- C13
\* C13: completeTask(id) asks the workers in index order, the first round at
\* worker 0 and each later round at the next worker; a round in which the
\* worker's completeTask succeeds ends the call with true, and it is the only
\* round of the call that changes a record; a round in which it fails goes on
\* to the next worker, and after the last worker the call returns false - also
\* when a worker holds the id.
C13_CompleteTaskFirstSuccess ==
    [][\A c \in Callers :
          (returned'.op = "completeTask" /\ returned'.caller = c) =>
             LET w == returned'.worker
                 i == returned'.id
                 ok == Worker_completeTask(task_storage[w], stats[w], i).ret
             IN /\ cpc[c] \in {"idle", "complete"}
                /\ w = IF cpc[c] = "complete" THEN cidx[c] ELSE 0
                /\ cpc[c] = "complete" => i = cid[c]
                /\ ok => /\ returned'.final
                         /\ returned'.val = "true"
                         /\ task_storage'[w][i].status = COMPLETED
                         /\ \A v \in Workers \ {w} : task_storage'[v] = task_storage[v]
                /\ (~ok /\ w + 1 < NumWorkers) =>
                      /\ ~returned'.final
                      /\ returned'.val = "false"
                      /\ cpc'[c] = "complete"
                      /\ cidx'[c] = w + 1
                      /\ cid'[c] = i
                /\ (~ok /\ w + 1 = NumWorkers) =>
                      /\ returned'.final
                      /\ returned'.val = "false"
                /\ ~ok => \A v \in Workers, j \in Ids :
                             Record(v, j)'.status = COMPLETED
                                => Record(v, j).status = COMPLETED
                /\ returned'.final => cpc'[c] = "idle"
      ]_vars

\* completeTask has just returned true at worker 0 for an id that worker 1
\* holds too, completable and not asked: its record is still PROCESSING with
\* a result.
C13_Witness ==
    /\ returned.op = "completeTask"
    /\ returned.final
    /\ returned.val = "true"
    /\ returned.worker = 0
    /\ Record(0, returned.id).status = COMPLETED
    /\ Record(1, returned.id).status = PROCESSING
    /\ Record(1, returned.id).result # ""


\* ----------------------------------------------------------------- C14
RECURSIVE SumProcessed(_)
SumProcessed(w) ==
    IF w >= NumWorkers THEN 0 ELSE stats[w].tasks_processed + SumProcessed(w + 1)

RECURSIVE SumFailed(_)
SumFailed(w) ==
    IF w >= NumWorkers THEN 0 ELSE stats[w].tasks_failed + SumFailed(w + 1)

\* Stored records that are PROCESSING, waiting for completeTask
AwaitingCompletion ==
    Cardinality({ <<w, i>> \in Workers \X Ids : Record(w, i).status = PROCESSING })

\* No processing thread is between taking a task from the queue and the end
\* of processTask.
NoTaskMidComputation ==
    \A w \in Workers, t \in Threads :
       tpc[w][t] \notin {"proc1", "proc2", "count", "countFailed"}

\* C14: with distinct task ids, whenever no task is mid-computation and no
\* call is in progress, the processed total equals the completed total plus
\* the failed total plus the number of records that are PROCESSING.
C14_StatisticsInvariant ==
    (NoTaskMidComputation /\ AllReturned /\ \A i \in Ids : created[i] <= 1)
       => SumProcessed(0) = SumCompleted(0) + SumFailed(0) + AwaitingCompletion


\* ----------------------------------------------------------------- C15
\* C15: while the workers' counters do not change, every getSystemStats call,
\* alone or concurrent with others, returns totals equal to the sums of the
\* workers' counters and total_workers equal to the number of workers.
C15_FreshSum ==
    [][/\ ~NoStatsCall => stats' = stats
       /\ returned'.op = "getSystemStats" =>
             /\ returned'.stats.total_tasks_processed = SumProcessed(0)
             /\ returned'.stats.total_tasks_completed = SumCompleted(0)
             /\ returned'.stats.total_tasks_failed = SumFailed(0)
             /\ returned'.stats.total_workers = NumWorkers
      ]_vars

Stopped(w) ==
    /\ ~wrunning[w]
    /\ ~(opc \in {"stopNotify", "stopJoin"} /\ oidx = w)

\* The step being taken is a step of a processing thread of worker w itself.
ThreadActs(w) ==
    \E t \in Threads : tpc[w][t] \notin {"blocked", "off"} /\ tpc'[w][t] # tpc[w][t]

\* C17: when Worker::stop returns, every processing thread of the worker has
\* left processTaskLoop and holds no task; and as long as the worker stays
\* stopped no processing thread takes a step, so that its records, queue
\* and counters change only through the calls of request handlers.
C17_StopLeavesNoThread ==
    [][\A w \in Workers :
          /\ Stopped(w)' =>
                \A t \in Threads : tpc'[w][t] = "off" /\ ttask'[w][t] = NoTask
          /\ Stopped(w) =>
                /\ ~ThreadActs(w)
                /\ (\/ task_queue'[w] # task_queue[w]
                    \/ task_storage'[w] # task_storage[w]
                    \/ stats'[w] # stats[w])
                      => \/ \E c \in Callers : cpc'[c] # cpc[c]
                         \/ returned'.op = "completeTask"
      ]_vars

\* Worker::stop has just returned from its joins for a worker whose thread
\* has taken a task and finished its computation.
C17_Witness ==
    /\ returned.op = "Worker::stop"
    /\ returned.val = "joined"
    /\ \E task_id \in Ids :
          /\ Record(returned.worker, task_id).status = PROCESSING
          /\ Record(returned.worker, task_id).result # ""

\* C18: Worker::stop on a running worker terminates: once it has set the
\* shutdown flag, every processing thread leaves processTaskLoop, the joins
\* complete and the call returns.
C18_StopTerminates ==
    opc = "stopNotify" ~> opc \in {"stopFlag", "stopServer"}

\* Worker::stop waits in join for a thread that blocked in the queue wait
\* after notify_all and that nothing is left to wake.
C18_Witness ==
    /\ opc = "stopJoin"
    /\ tpc[oidx] = [t \in Threads |-> "blocked"]
    /\ \A c \in Callers : cpc[c] = "idle"
    /\ current_worker = MaxCreate

\* Task task_id is in the queue of worker w, not yet dequeued, with its
\* record stored, and the worker is stopped.
Abandoned(w, task_id) ==
    /\ Stopped(w)
    /\ \E k \in 1..Len(task_queue[w]) : task_queue[w][k].id = task_id
    /\ Record(w, task_id).status = PENDING

\* C19: a task still in the queue of a worker when the worker is stopped is
\* abandoned: from then on its record is PENDING for ever, whatever is
\* called later.
C19_AbandonedStayPending ==
    \A w \in Workers, task_id \in Ids :
        [](Abandoned(w, task_id) => [](Record(w, task_id).status = PENDING))

\* C20: the orchestrator is either running or not running, and start() on a
\* running orchestrator and stop() on one that is not running change
\* nothing: no flag, no worker, no thread, no queue or record.
C20_StartStopIdempotent ==
    [][/\ running' \in BOOLEAN
       /\ (running /\ Start) =>
             UNCHANGED <<orchVars, workerVars, threadVars, callerVars, histVars>>
       /\ (~running /\ Stop) =>
             UNCHANGED <<orchVars, workerVars, threadVars, callerVars, histVars>>
      ]_vars

\* start() has just returned on a running orchestrator whose workers have
\* threads at work.
C20_Witness ==
    /\ returned.op = "start"
    /\ returned.val = "running"
    /\ running
    /\ \E w \in Workers, t \in Threads : tpc[w][t] = "proc2"

\* No call of start() or stop() is in progress, in main or in a handler.
AtRest == opc = "idle" /\ main.saved = NoFrame

\* C21: stop() stops every worker, also when it runs in the signal handler:
\* when no start() or stop() is in progress and the orchestrator is not
\* running, no worker is running and no processing thread is alive; and
\* that is the state main's own stop() leaves.
C21_StopStopsEveryWorker ==
    /\ (AtRest /\ ~running) =>
          \A w \in Workers : ~wrunning[w] /\ \A t \in Threads : tpc[w][t] = "off"
    /\ (AtRest /\ main.pc = "exit") => ~running

\* A signal arrived while main was inside start(); the handler's stop() and
\* then start() have returned, main has called its own stop(), and a worker
\* is running.
C21_Witness ==
    /\ AtRest
    /\ main.pc = "exit"
    /\ ~running
    /\ \E w \in Workers : wrunning[w]

\* The calculation of the task that thread t of worker w holds raises an error.
Raises(w, t) ==
    /\ tpc[w][t] = "proc2"
    /\ ~execute_calculation(ttask[w][t].operation, ttask[w][t].input).ok

\* The step leaves every record but that of task_id in worker w, every
\* queue and every other thread as they are.
OthersUntouched(w, t, task_id) ==
    /\ \A v \in Workers, i \in Ids :
          (v # w \/ i # task_id) => task_storage'[v][i] = task_storage[v][i]
    /\ task_queue' = task_queue
    /\ wrunning' = wrunning
    /\ \A v \in Workers, u \in Threads : (v # w \/ u # t) => tpc'[v][u] = tpc[v][u]

\* C22: an error of the calculation stays in its task.  The thread catches
\* it, stores the message in the task's record and sets the record FAILED,
\* touching no other record, queue, worker or counter; it then counts the
\* task as failed and as processed and is back at the head of its loop,
\* ready for the next queued task.
C22_ErrorContained ==
    [][\A w \in Workers, t \in Threads :
          /\ (Raises(w, t) /\ tpc'[w][t] # tpc[w][t]) =>
                LET id == ttask[w][t].id
                    msg == execute_calculation(ttask[w][t].operation,
                                               ttask[w][t].input).value
                IN /\ task_storage'[w][id] = [ttask[w][t] EXCEPT !.error_message = msg,
                                                                !.status = FAILED]
                   /\ task_storage'[w][id].result = ""
                   /\ OthersUntouched(w, t, id)
                   /\ stats' = stats
                   /\ tpc'[w][t] = "countFailed"
          /\ (tpc[w][t] = "countFailed" /\ tpc'[w][t] # tpc[w][t]) =>
                /\ stats' = [stats EXCEPT ![w].tasks_failed = @ + 1]
                /\ task_storage' = task_storage
                /\ OthersUntouched(w, t, ttask[w][t].id)
                /\ tpc'[w][t] = "count"
          /\ (tpc[w][t] = "count" /\ tpc'[w][t] # tpc[w][t]) =>
                /\ stats' = [stats EXCEPT ![w].tasks_processed = @ + 1]
                /\ task_storage' = task_storage
                /\ OthersUntouched(w, t, ttask[w][t].id)
                /\ tpc'[w][t] = "loop"
      ]_vars

\* A thread whose first task failed has gone on to the next task of its
\* queue: the failed record stands FAILED with its message while the thread
\* computes the other task.
C22_Witness ==
    \E w \in Workers, t \in Threads, i \in Ids :
        /\ Record(w, i).status = FAILED
        /\ Record(w, i).error_message # ""
        /\ stats[w].tasks_failed = 1
        /\ tpc[w][t] = "proc2"
        /\ ttask[w][t].id # i

\* C23: a record that has a result is never moved to FAILED, and a record
\* becomes FAILED only in the step in which a processing thread catches the
\* error its calculation of that task raised.
C23_FailedOnlyByError ==
    [][\A w \in Workers, i \in Ids :
          LET old == task_storage[w][i]
              new == task_storage'[w][i]
          IN /\ (old # NoTask /\ old.result # "" /\ old.status # FAILED) =>
                    new.status # FAILED
             /\ (old.status # FAILED /\ new.status = FAILED) =>
                    \E t \in Threads :
                        /\ Raises(w, t)
                        /\ ttask[w][t].id = i
                        /\ tpc'[w][t] # tpc[w][t]
      ]_vars

\* A record is FAILED though no calculation has raised an error: no task
\* has been counted as failed.
C23_Witness ==
    /\ \E w \in Workers, i \in Ids : Record(w, i).status = FAILED
    /\ \A w \in Workers : stats[w].tasks_failed = 0

\* A task as the constructor leaves it: PENDING, no result, no error.
Fresh(task) ==
    /\ task.status = PENDING
    /\ task.result = ""
    /\ task.error_message = ""

\* C24: every task starts PENDING with empty result and empty error: the
\* task createTask is given, built by the constructor or decoded from the
\* payload of a creation request, and the record addTask first registers
\* for it in the worker.
C24_StartsPending ==
    [][\A c \in Callers :
          /\ (cpc[c] = "idle" /\ cpc'[c] = "push") => Fresh(ctask'[c])
          /\ (/\ cpc[c] = "store" /\ cpc'[c] = "notify"
              /\ task_storage[cidx[c]][ctask[c].id] = NoTask) =>
                Fresh(task_storage'[cidx[c]][ctask[c].id])
      ]_vars

\* A task decoded from a payload that carried a status has been registered
\* with that status.
C24_Witness ==
    \E w \in Workers, i \in Ids :
        /\ Record(w, i) # NoTask
        /\ Record(w, i).status = COMPLETED
        /\ \A j \in Ids : succ[j] = 0

\* C25: isValid returns true exactly when id and title are not empty, the
\* type is "calculation", the operation is factorial, fibonacci or
\* prime_check, the input is between 0 and 100000 and within the limit of
\* the operation; otherwise it returns false; it never raises.
C25_IsValidExactly ==
    returned.op = "isValid" =>
        LET t == returned.task
            valid == /\ t.id # "" /\ t.title # ""
                     /\ t.type = "calculation"
                     /\ t.operation \in {"factorial", "fibonacci", "prime_check"}
                     /\ 0 <= t.input /\ t.input <= 100000
                     /\ t.operation = "factorial" => t.input <= 20
                     /\ t.operation = "fibonacci" => t.input <= 1000
                     /\ t.operation = "prime_check" => t.input >= 2
        IN /\ returned.val = (IF valid THEN "true" ELSE "false")
           /\ returned.error = ""

\* isValid has returned false for a factorial task just over its limit.
C25_Witness ==
    /\ returned.op = "isValid"
    /\ returned.task.operation = "factorial"
    /\ returned.task.input = 21
    /\ returned.task.id # "" /\ returned.task.title # ""
    /\ returned.task.type = "calculation"
    /\ returned.val = "false"

\* n! for the n an integer of the checker can hold (n <= 12)
RECURSIVE IntFactorial(_)
IntFactorial(n) == IF n <= 1 THEN 1 ELSE n * IntFactorial(n - 1)

\* The decimal numerals of 0!, 1!, ..., 20!
FactorialNumerals ==
    <<"1", "1", "2", "6", "24", "120", "720", "5040", "40320", "362880", "3628800",
      "39916800", "479001600", "6227020800", "87178291200", "1307674368000",
      "20922789888000", "355687428096000", "6402373705728000",
      "121645100408832000", "2432902008176640000">>

\* C26: factorial(n) is the decimal numeral of n!, without leading zeros,
\* for 0 <= n <= 20, and an invalid-argument error for n < 0.
C26_FactorialExact ==
    returned.op = "factorial" =>
        LET n == returned.input IN
        IF n < 0
        THEN returned.error # "" /\ returned.val = ""
        ELSE /\ returned.error = ""
             /\ returned.val = FactorialNumerals[n + 1]
             /\ n <= 12 => returned.val = ToString(IntFactorial(n))

\* factorial(20) has returned its nineteen digits.
C26_Witness ==
    /\ returned.op = "factorial"
    /\ returned.input = 20
    /\ returned.val = "2432902008176640000"

\* The n-th Fibonacci number as <<high, low>>, high * 10^8 + low, by integer
\* addition, from the pair of the two numbers before it.
RECURSIVE FibonacciNumber(_, _, _)
FibonacciNumber(n, prev, curr) ==
    IF n = 0 THEN prev
    ELSE LET low == prev[2] + curr[2]
         IN  FibonacciNumber(n - 1, curr,
                             <<prev[1] + curr[1] + low \div 100000000, low % 100000000>>)

\* The last k decimal digits of v, zeros included
RECURSIVE LastDigits(_, _)
LastDigits(v, k) == IF k = 0 THEN "" ELSE LastDigits(v \div 10, k - 1) \o ToString(v % 10)

\* The decimal numeral of high * 10^8 + low
Numeral(number) ==
    IF number[1] = 0 THEN ToString(number[2])
    ELSE ToString(number[1]) \o LastDigits(number[2], 8)

\* C27: fibonacci(n) is the decimal numeral of the n-th Fibonacci number,
\* counted from fibonacci(0) = "0" and fibonacci(1) = "1", for n >= 0, and
\* an invalid-argument error for n < 0.
C27_FibonacciExact ==
    returned.op = "fibonacci" =>
        LET n == returned.input IN
        IF n < 0
        THEN returned.error # "" /\ returned.val = ""
        ELSE /\ returned.error = ""
             /\ returned.val = Numeral(FibonacciNumber(n, <<0, 0>>, <<0, 1>>))

\* fibonacci(50) has returned its eleven digits, more than a 32-bit integer
\* holds.
C27_Witness ==
    /\ returned.op = "fibonacci"
    /\ returned.input = 50
    /\ returned.val = "12586269025"

\* n is a prime number
IsPrime(n) == n >= 2 /\ \A d \in 2 .. (n - 1) : n % d # 0

\* C28: prime_check(n) is "true" exactly when n is prime and "false"
\* otherwise, for n >= 2, and an invalid-argument error for n < 2.
C28_PrimeCheckExact ==
    returned.op = "prime_check" =>
        LET n == returned.input IN
        IF n < 2
        THEN returned.error # "" /\ returned.val = ""
        ELSE /\ returned.error = ""
             /\ returned.val = (IF IsPrime(n) THEN "true" ELSE "false")

\* prime_check has returned "false" for the square of a prime, whose only
\* divisor is the limit of the loop itself.
C28_Witness ==
    /\ returned.op = "prime_check"
    /\ returned.input = 361
    /\ returned.val = "false"

\* The name of each status
StatusNames ==
    (PENDING :> "pending") @@ (PROCESSING :> "processing")
        @@ (COMPLETED :> "completed") @@ (FAILED :> "failed")

\* C29: stringToTaskStatus(taskStatusToString(s)) = s for each of the four
\* statuses; taskStatusToString gives "pending", "processing", "completed",
\* "failed"; stringToTaskStatus of a string that is none of the four gives
\* PENDING.
C29_StatusRoundTrip ==
    /\ returned.op = "stringToTaskStatus(taskStatusToString)" =>
            returned.val = returned.arg
    /\ returned.op = "taskStatusToString" =>
            returned.val = StatusNames[returned.arg]
    /\ (returned.op = "stringToTaskStatus"
           /\ \A status \in TaskStatus : returned.arg # StatusNames[status]) =>
            returned.val = PENDING

\* FAILED has gone through both conversions and come back.
C29_Witness ==
    /\ returned.op = "stringToTaskStatus(taskStatusToString)"
    /\ returned.arg = FAILED
    /\ returned.val = FAILED

\* C30 as stated: the round-robin counter never decreases and every call of
\* createTask (a step CreateTask) adds exactly 1 to it; the worker the call selects is the
\* counter's value before the call modulo the number of workers.
C30_EveryCallIncrements ==
    [][/\ current_worker' >= current_worker
       /\ \A c \in Callers, task \in Payloads :
             CreateTask(c, task) =>
                 /\ current_worker' = current_worker + 1
                 /\ cidx'[c] = current_worker % NumWorkers]_vars

\* C30, amended: the round-robin counter never decreases and changes in no
\* step but a call of createTask; a call whose task passes validateTaskInput
\* adds exactly 1 to it and selects the worker of the counter's value before
\* the call modulo the number of workers; a call whose task is rejected
\* leaves the counter as it is and selects no worker.
C30_AcceptedCallIncrements ==
    [][/\ current_worker' >= current_worker
       /\ current_worker' # current_worker =>
             \E c \in Callers, task \in Payloads : CreateTask(c, task)
       /\ \A c \in Callers, task \in Payloads :
             CreateTask(c, task) =>
                 IF validateTaskInput(task)
                 THEN /\ current_worker' = current_worker + 1
                      /\ cidx'[c] = current_worker % NumWorkers
                 ELSE /\ current_worker' = current_worker
                      /\ cidx'[c] = cidx[c]]_vars

\* A call of createTask has just been rejected after NumWorkers + 1 calls
\* were accepted and went to the workers in turn.
C30_Witness ==
    /\ returned.op = "createTask"
    /\ returned.error # ""
    /\ current_worker = NumWorkers + 1
    /\ Len(assigned) = NumWorkers + 1
    /\ \A n \in 1 .. Len(assigned) : assigned[n] = (n - 1) % NumWorkers

\* ------------------------------------------------------------------ C31
\* C31: with callers in createTask at the same time, the counter values
\* given to the accepted calls are 0, 1, ..., n - 1, one each (the counter
\* equals the number of values given out and the k-th value given selects
\* worker k mod W), and once the n calls have returned every worker has
\* received floor(n / W) or ceil(n / W) of the n tasks, whatever their
\* priorities and the lengths of the queues.
C31_FairUnderConcurrency ==
    /\ current_worker = Len(assigned)
    /\ \A c \in Callers : cpc[c] # "idle" => cidx[c] \in Workers
    /\ AllReturned =>
          \A w \in Workers :
              \/ Received(w) = Len(assigned) \div NumWorkers
              \/ Received(w) = (Len(assigned) + NumWorkers - 1) \div NumWorkers

\* W + 1 tasks have all been handed over: one worker has received one of
\* them and another two, which wait in its queue, the one of higher priority
\* first.
C31_Witness ==
    /\ AllReturned
    /\ Len(assigned) = NumWorkers + 1
    /\ \E w \in Workers : Received(w) = 1
    /\ \E w \in Workers :
          /\ Received(w) = 2
          /\ Len(task_queue[w]) = 2
          /\ task_queue[w][1].priority > task_queue[w][2].priority

\* ------------------------------------------------------------------ C32
\* Thread t of worker w, notified inside the queue wait, pops the head of
\* the queue and goes on to process it.
PopsHead(w, t) ==
    /\ task_queue[w] # <<>>
    /\ tpc'[w][t] = "proc1"
    /\ ttask'[w][t] = Head(task_queue[w])
    /\ task_queue'[w] = Tail(task_queue[w])

\* C32 as stated: a thread that comes out of the queue wait leaves the loop
\* only if the worker has been asked to stop and the queue is empty; in
\* every other case it pops the head of the queue and processes it.
C32_WakeExitsOnlyIfEmpty ==
    [][\A w \in Workers, t \in Threads :
          (tpc[w][t] = "woken" /\ tpc'[w][t] \notin {"woken", "prewait"}) =>
              IF ~wrunning[w] /\ task_queue[w] = <<>>
              THEN tpc'[w][t] = "off"
              ELSE PopsHead(w, t)]_vars

\* C32, amended: a thread notified inside the queue wait leaves the loop if
\* the worker has been asked to stop, whether the queue is empty or not, and
\* then pops nothing; if the worker runs and the queue is not empty it pops
\* the head and processes it; if the worker runs and the queue is empty it
\* stays in the wait.
C32_WakeExitsOnStop ==
    [][\A w \in Workers, t \in Threads :
          (tpc[w][t] = "woken" /\ tpc'[w][t] # "woken") =>
              IF ~wrunning[w]
              THEN tpc'[w][t] = "off" /\ task_queue'[w] = task_queue[w]
              ELSE IF task_queue[w] = <<>>
              THEN tpc'[w][t] = "prewait" /\ task_queue'[w] = task_queue[w]
              ELSE PopsHead(w, t)]_vars

\* A thread has been notified inside the queue wait while its worker has
\* been asked to stop and a task is in the queue.
C32_Witness ==
    \E w \in Workers, t \in Threads :
        /\ tpc[w][t] = "woken"
        /\ ~wrunning[w]
        /\ task_queue[w] # <<>>

\* ------------------------------------------------------------------ C33
\* C33: no processing thread and no caller holds queue_mutex_ and
\* storage_mutex_ of a worker at the same time; each mutex has at most one
\* holder; and whoever holds a mutex waits for no mutex, so no agents can
\* wait for each other in a circle.
C33_LocksNeverNested ==
    \A w \in Workers :
        LET positions == { tpc[w][t] : t \in Threads }
                            \cup { cpc[c] : c \in { d \in Callers : cidx[d] = w } }
        IN /\ \A pos \in positions :
                 /\ Cardinality(LocksHeld(pos)) <= 1
                 /\ LocksHeld(pos) # {} => LockWanted(pos) = ""
           /\ \A mutex \in {"queue_mutex_", "storage_mutex_"} :
                 Cardinality({ t \in Threads : mutex \in LocksHeld(tpc[w][t]) })
                   + Cardinality({ c \in Callers :
                                     cidx[c] = w /\ mutex \in LocksHeld(cpc[c]) }) <= 1

\* On one worker a producer is inside the second block of addTask with
\* storage_mutex_ while the processing thread, which has already popped the
\* task, and a caller of completeTask or getTask both wait for that mutex.
C33_Witness ==
    \E w \in Workers, t \in Threads, c \in Callers, d \in Callers :
        /\ cpc[c] = "storeLocked" /\ cidx[c] = w
        /\ tpc[w][t] = "proc1" /\ ttask[w][t].id = ctask[c].id
        /\ cpc[d] \in {"complete", "get"} /\ cidx[d] = w


\* ----------------------------------------------------------------- C34
\* C34: while every id has been submitted at most once, a task is in at most
\* one place (a queue, the local Task of one processing thread, or done);
\* tasks_processed counts exactly the tasks whose processTask has ended,
\* tasks_failed exactly those of them (and of the tasks between the two
\* increments of the catch block) whose calculation raises, tasks_completed
\* exactly the completeTask calls that returned true; at most one such call
\* per task, and none for a task whose calculation raises.
C34_CountedOnce ==
    LET InQueue(i) == { p \in Workers \X (1 .. MaxDistribute) :
                           /\ p[2] <= Len(task_queue[p[1]])
                           /\ task_queue[p[1]][p[2]].id = i }
        InThread(i) == { p \in Workers \X Threads :
                            /\ tpc[p[1]][p[2]] \in {"proc1", "proc2", "count",
                                                    "countFailed"}
                            /\ ttask[p[1]][p[2]].id = i }
        Raised(i) == \E w \in Workers :
                        /\ Record(w, i) # NoTask
                        /\ ~execute_calculation(Record(w, i).operation,
                                                Record(w, i).input).ok
        FailedCounted == { i \in Ids :
                             /\ Raised(i)
                             /\ \/ i \in finished
                                \/ \E p \in InThread(i) : tpc[p[1]][p[2]] = "count" }
    IN (\A i \in Ids : created[i] <= 1) =>
          /\ \A i \in Ids :
                /\ Cardinality(InQueue(i)) + Cardinality(InThread(i))
                      + (IF i \in finished THEN 1 ELSE 0) <= created[i]
                /\ succ[i] <= 1
                /\ succ[i] = 1 => ~Raised(i)
          /\ SumProcessed(0) = Cardinality(finished)
          /\ SumFailed(0) = Cardinality(FailedCounted)
          /\ SumCompleted(0) = SumSucc(NumIds)

\* A task submitted once has been completed twice: both completeTask calls
\* returned true and tasks_completed of its worker is 2.
C34_Witness ==
    \E w \in Workers, i \in Ids :
        /\ \A k \in Ids : created[k] <= 1
        /\ created[i] = 1
        /\ succ[i] = 2
        /\ stats[w].tasks_completed = 2
        /\ Record(w, i).status = COMPLETED

C36_OnlyFirstCopy ==
    [][\A i \in Ids, v \in Workers, w \in Workers :
          (/\ v < w
           /\ Record(v, i) # NoTask
           /\ Record(w, i) # NoTask
           /\ CompleteRoundAt(w, i)) =>
              ~(Record(w, i).status # COMPLETED /\ Record(w, i)'.status = COMPLETED)
      ]_vars

\* C36 as the code has it: the records of an id in two workers are
\* independent (a step changes the map of at most one worker), and a
\* completeTask call changes at most one of them: the round that completes a
\* record finds it PROCESSING with a result, changes nothing else, returns
\* true and ends the call; lower-index workers were asked before and refused.
C36_OneCopyPerCall ==
    [][/\ \A v \in Workers, w \in Workers :
             (v # w /\ task_storage'[v] # task_storage[v]) =>
                task_storage'[w] = task_storage[w]
       /\ \A i \in Ids, w \in Workers :
             (/\ CompleteRoundAt(w, i)
              /\ Record(w, i).status # COMPLETED
              /\ Record(w, i)'.status = COMPLETED) =>
                 /\ CompletablePre(w, i)
                 /\ \A j \in Ids \ {i} : Record(w, j)' = Record(w, j)
                 /\ returned'.val = "true"
                 /\ returned'.final
                 /\ cpc'[returned'.caller] = "idle"
                 /\ \E c \in Callers :
                       /\ returned'.caller = c
                       /\ w > 0 => (cpc[c] = "complete" /\ cidx[c] = w /\ cid[c] = i)
      ]_vars

\* The same id was submitted twice and went to both workers; a first
\* completeTask completed one copy, and a second one, refused by worker 0,
\* has just completed the copy of worker 1.
C36_Witness ==
    \E i \in Ids :
        /\ created[i] = 2
        /\ succ[i] = 2
        /\ Record(0, i).status = COMPLETED
        /\ Record(NumWorkers - 1, i).status = COMPLETED
        /\ returned.op = "completeTask" /\ returned.id = i
        /\ returned.worker = NumWorkers - 1 /\ returned.val = "true"


\* ----------------------------------------------------------------- C37
\* C37: validateTaskInput accepts a task exactly when task.isValid() is true,
\* whatever its id, title, type, operation and input; the checks it adds to
\* isValid reject nothing that isValid accepts.
C37_BoundaryCheckIsIsValid ==
    returned.op = "validateTaskInput" =>
        /\ returned.val = (IF Task_isValid(returned.task) THEN "true" ELSE "false")
        /\ returned.error = ""

\* validateTaskInput has accepted a factorial task at the limit of isValid,
\* which its own range check looks at again.
C37_Witness ==
    /\ returned.op = "validateTaskInput"
    /\ returned.val = "true"
    /\ returned.task.operation = "factorial"
    /\ returned.task.input = MaxFactorial


C39_OutcomesWithinProcessed ==
    \A w \in Workers :
        stats[w].tasks_completed + stats[w].tasks_failed <= stats[w].tasks_processed

\* A thread has stored the result of its first task and has not yet counted
\* it, and a completeTask call has already completed the task: the worker's
\* counters read completed 1, processed 0.
C39_Witness ==
    \E w \in Workers, t \in Threads :
        /\ tpc[w][t] = "count"
        /\ Record(w, ttask[w][t].id).status = COMPLETED
        /\ stats[w].tasks_completed = 1
        /\ stats[w].tasks_failed = 0
        /\ stats[w].tasks_processed = 0


\* ----------------------------------------------------------------- C40
\* C40: a task that createTask has accepted has an operation and an input on
\* which execute_calculation returns a result; no record is FAILED and no
\* worker has counted a failed task.
C40_NoFailureAfterValidation ==
    /\ \A w \in Workers, i \in Ids :
          Record(w, i) # NoTask =>
             /\ Record(w, i).status # FAILED
             /\ validate_calculation_input(Record(w, i).operation, Record(w, i).input)
    /\ \A w \in Workers : stats[w].tasks_failed = 0

\* createTask has accepted a task and returned its id, and the record the
\* worker holds for it is FAILED although no failure has been counted.
C40_Witness ==
    \E w \in Workers, i \in Ids :
        /\ returned.op = "createTask" /\ returned.val = i
        /\ returned.worker = w
        /\ Record(w, i).status = FAILED
        /\ stats[w].tasks_failed = 0

====
